---- MODULE Spec2Model ----
(***************************************************************************)
(* Model of the weekly trading loop of bot/run_live_week.py (main) with    *)
(* the Brain of bot/analyzer_v2.py (get_brain_settings).                   *)
(*                                                                         *)
(* Numbers.  The program computes in floats; the model computes the same   *)
(* expressions exactly, in fixed point:                                    *)
(*   - prices (a bar's close and ATR, entry, sl, tp1, tp2, R, trailing     *)
(*     levels) are integers in hundredths of a price unit;                 *)
(*   - multipliers (atr_k_sl, r1_R, trail_atr_k, p1_pct, ...) are kept in  *)
(*     hundredths (1.5 -> 150), risk_per_trade in thousandths (0.03 -> 30);*)
(*   - quantities are integers in quarters of a unit, so that the partial- *)
(*     close fractions of the modelled quantities are exact;               *)
(*   - equity, P&L and notionals are price x quantity in these units;      *)
(*     remaining_notional is kept in hundredths of that unit;              *)
(*   - where the floats of the program decide between two branches that    *)
(*     the exact numbers do not tell apart, the floats are computed, digit *)
(*     by digit.                                                           *)
(***************************************************************************)
EXTENDS Integers, Sequences, FiniteSets, TLC

\* ---------------------------------------------------------------------
\* Bounds of the model
\* ---------------------------------------------------------------------
\* the most loop iterations of a run: the blocking calls of an iteration
\* take so long that the week is over after MaxTicks iterations in the long
\* runs and after one iteration less in the others
MaxTicks == 3
\* last day on the wall clock of the runs that follow the Brain over days
MaxDays == 3

\* ---------------------------------------------------------------------
\* The absent value (None, NaN) and arithmetic helpers
\* ---------------------------------------------------------------------
None == -1

Max(a, b) == IF a >= b THEN a ELSE b
Min(a, b) == IF a <= b THEN a ELSE b
MinOf(S) == CHOOSE x \in S : \A y \in S : x <= y

\* Python floats: IEEE 754 doubles, every operation rounded to the nearest
\* double, ties to the even mantissa.  A double other than zero is
\* (-1)^neg * 0.b1 b2 ... b53 * 2^exp with b1 = 1, its bits in man
MANT_DIG == 53
FloatZero == [neg |-> FALSE, exp |-> 0, man |-> <<>>]
IsZero(x) == x.man = <<>>
Zeros(n) == [i \in 1..n |-> 0]

RECURSIVE Pow2(_)
Pow2(k) == IF k = 0 THEN 1 ELSE 2 * Pow2(k - 1)

\* the least k >= from with a < d * 2^k
RECURSIVE ShiftUp(_, _, _)
ShiftUp(a, d, from) == IF a < d * Pow2(from) THEN from ELSE ShiftUp(a, d, from + 1)

\* for a < d, the greatest j >= from with a * 2^j < d
RECURSIVE ShiftDown(_, _, _)
ShiftDown(a, d, from) ==
    IF a * Pow2(from + 1) < d THEN ShiftDown(a, d, from + 1) ELSE from

\* long division of N / D < 1, six binary digits (one digit of 64) at a
\* time: n more groups after those of acc, and what is left of N
RECURSIVE QuotGroups(_, _, _, _)
QuotGroups(N, D, n, acc) ==
    IF n = 0 THEN [groups |-> acc, rem |-> N]
    ELSE QuotGroups((N * 64) % D, D, n - 1, Append(acc, (N * 64) \div D))

\* the i-th binary digit of a row of groups of six
BitOf(groups, i) ==
    (groups[((i - 1) \div 6) + 1] \div Pow2(5 - ((i - 1) % 6))) % 2

\* one more in the last place
Increment(b) ==
    LET zeros == {i \in 1..Len(b) : b[i] = 0}
        last == IF zeros = {} THEN 0 ELSE CHOOSE i \in zeros : \A j \in zeros : j <= i
    IN IF last = 0 THEN <<1>> \o Zeros(Len(b))
       ELSE [i \in 1..Len(b) |-> IF i < last THEN b[i] ELSE IF i = last THEN 1 ELSE 0]

\* the double nearest to 0.bits * 2^exp (bits[1] = 1); sticky: digits other
\* than zero follow the given ones
RoundNearestEven(neg, exp, bits, sticky) ==
    IF Len(bits) <= MANT_DIG
    THEN [neg |-> neg, exp |-> exp, man |-> bits \o Zeros(MANT_DIG - Len(bits))]
    ELSE LET head == SubSeq(bits, 1, MANT_DIG)
             half == bits[MANT_DIG + 1] = 1
             more == sticky \/ \E i \in (MANT_DIG + 2)..Len(bits) : bits[i] = 1
             inc == Increment(head)
         IN IF ~(half /\ (more \/ head[MANT_DIG] = 1))
            THEN [neg |-> neg, exp |-> exp, man |-> head]
            ELSE IF Len(inc) > MANT_DIG
            THEN [neg |-> neg, exp |-> exp + 1, man |-> SubSeq(inc, 1, MANT_DIG)]
            ELSE [neg |-> neg, exp |-> exp, man |-> inc]

\* n / d of two floats holding the integers n and d > 0
FloatDiv(n, d) ==
    IF n = 0 THEN FloatZero
    ELSE LET a == IF n < 0 THEN 0 - n ELSE n
             k == IF a >= d THEN ShiftUp(a, d, 0) ELSE 0
             j == IF a >= d THEN 0 ELSE ShiftDown(a, d, 0)
             q == QuotGroups(a * Pow2(j), d * Pow2(k), (MANT_DIG + 1) \div 6, <<>>)
         IN RoundNearestEven(n < 0, k - j,
                             [i \in 1..(MANT_DIG + 1) |-> BitOf(q.groups, i)],
                             q.rem # 0)

\* a < b for two bit rows of one length
BitsLess(a, b) ==
    \E i \in 1..Len(a) : a[i] < b[i] /\ \A j \in 1..(i - 1) : a[j] = b[j]

MagLess(x, y) == x.exp < y.exp \/ (x.exp = y.exp /\ BitsLess(x.man, y.man))

\* x < y
FloatLt(x, y) ==
    IF IsZero(x) THEN ~IsZero(y) /\ ~y.neg
    ELSE IF IsZero(y) THEN x.neg
    ELSE IF x.neg # y.neg THEN x.neg
    ELSE IF x.neg THEN MagLess(y, x) ELSE MagLess(x, y)

\* x <= y
FloatLe(x, y) == ~FloatLt(y, x)

\* the first place right of i where `differ` holds, 0 when there is none
NextPlace(i, len, differ(_)) ==
    LET S == {j \in (i + 1)..len : differ(j)}
    IN IF S = {} THEN 0 ELSE CHOOSE j \in S : \A m \in S : j <= m

\* a + b of two bit rows of one length, one digit longer: the carry into a
\* place comes from the first place to its right where the digits agree
AddBits(a, b) ==
    LET len == Len(a)
        Agree(j) == a[j] = b[j]
        carry == [i \in 0..len |->
                    LET p == NextPlace(i, len, Agree)
                    IN IF p = 0 THEN 0 ELSE a[p]]
    IN <<carry[0]>> \o [i \in 1..len |-> (a[i] + b[i] + carry[i]) % 2]

\* a - b of two bit rows of one length, a >= b: a place lends when, at the
\* first place to its right where the digits differ, a has the 0
SubBits(a, b) ==
    LET len == Len(a)
        Differ(j) == a[j] # b[j]
        borrow == [i \in 1..len |->
                     LET p == NextPlace(i, len, Differ)
                     IN IF p = 0 THEN 0 ELSE b[p]]
    IN [i \in 1..len |-> (a[i] - b[i] - borrow[i]) % 2]

LeadingZeros(b) ==
    LET ones == {i \in 1..Len(b) : b[i] = 1}
    IN IF ones = {} THEN Len(b) ELSE (CHOOSE i \in ones : \A j \in ones : i <= j) - 1

\* the mantissa of x as digits below 2^top, in a row of `width` digits
Aligned(x, top, width) ==
    Zeros(top - x.exp) \o x.man \o Zeros(width - MANT_DIG - (top - x.exp))

\* x + y: the exact sum, rounded
FloatAdd(x, y) ==
    IF IsZero(x) THEN y
    ELSE IF IsZero(y) THEN x
    ELSE LET E == Max(x.exp, y.exp)
             len == MANT_DIG + E - Min(x.exp, y.exp)
             xs == Aligned(x, E, len)
             ys == Aligned(y, E, len)
             raw == IF x.neg = y.neg THEN AddBits(xs, ys)
                    ELSE IF BitsLess(xs, ys) THEN <<0>> \o SubBits(ys, xs)
                    ELSE <<0>> \o SubBits(xs, ys)
             sign == IF x.neg # y.neg /\ BitsLess(xs, ys) THEN y.neg ELSE x.neg
             z == LeadingZeros(raw)
         IN IF z = Len(raw) THEN FloatZero
            ELSE RoundNearestEven(sign, E + 1 - z, SubSeq(raw, z + 1, Len(raw)), FALSE)

\* x - y
FloatSub(x, y) ==
    FloatAdd(x, IF IsZero(y) THEN y ELSE [y EXCEPT !.neg = ~@])

\* the row a, moved j places to the right, in a row twice as long
Shifted(a, j) == Zeros(j) \o a \o Zeros(Len(a) - j)

\* a * b of two rows of one length, digits after the point, twice as long:
\* the rows of a at the places lo..hi where b has a 1, summed up
RECURSIVE MulBits(_, _, _, _)
MulHalves(low, high) == Tail(AddBits(low, high))
MulBits(a, b, lo, hi) ==
    IF lo = hi
    THEN IF b[lo] = 1 THEN Shifted(a, lo) ELSE Zeros(2 * Len(a))
    ELSE MulHalves(MulBits(a, b, lo, (lo + hi) \div 2),
                   MulBits(a, b, (lo + hi) \div 2 + 1, hi))

Ones(b) == Cardinality({i \in 1..Len(b) : b[i] = 1})

\* x * y: the exact product, rounded
FloatMul(x, y) ==
    IF IsZero(x) \/ IsZero(y) THEN FloatZero
    ELSE LET raw == IF Ones(x.man) <= Ones(y.man) THEN MulBits(y.man, x.man, 1, MANT_DIG)
                    ELSE MulBits(x.man, y.man, 1, MANT_DIG)
             z == LeadingZeros(raw)
         IN RoundNearestEven(x.neg # y.neg, x.exp + y.exp - z,
                             SubSeq(raw, z + 1, Len(raw)), FALSE)

\* max(x, y) of Python: y only when it is greater than x
FloatMax(x, y) == IF FloatLt(x, y) THEN y ELSE x

\* one digit of N / D (N < D, rows of one length whose first digit is 0),
\* then the next, n in all, and what is left of N
QuotJoin(first, rest) == [bits |-> first.bits \o rest.bits, rem |-> rest.rem]
RECURSIVE QuotRow(_, _, _)
RECURSIVE QuotNext(_, _, _)
QuotRow(N, D, n) ==
    IF n = 1
    THEN IF BitsLess(Tail(N) \o <<0>>, D)
         THEN [bits |-> <<0>>, rem |-> Tail(N) \o <<0>>]
         ELSE [bits |-> <<1>>, rem |-> SubBits(Tail(N) \o <<0>>, D)]
    ELSE QuotNext(QuotRow(N, D, n \div 2), D, n - (n \div 2))
QuotNext(first, D, n) == QuotJoin(first, QuotRow(first.rem, D, n))

\* x / y of two floats, y not zero: the exact quotient, rounded
FloatQuot(x, y) ==
    IF IsZero(x) THEN FloatZero
    ELSE LET whole == ~BitsLess(x.man, y.man)
             N == IF whole THEN <<0, 0>> \o x.man ELSE <<0>> \o x.man \o <<0>>
             D == <<0>> \o y.man \o <<0>>
             q == QuotRow(N, D, MANT_DIG + 1)
         IN RoundNearestEven(x.neg # y.neg,
                             x.exp - y.exp + (IF whole THEN 1 ELSE 0),
                             q.bits, \E i \in DOMAIN q.rem : q.rem[i] = 1)

\* the number a row of digits stands for
RECURSIVE BitsValue(_)
BitsValue(b) ==
    IF b = <<>> THEN 0 ELSE 2 * BitsValue(SubSeq(b, 1, Len(b) - 1)) + b[Len(b)]

\* math.floor of a float x >= 0
FloatFloor(x) ==
    IF IsZero(x) \/ x.exp <= 0 THEN 0 ELSE BitsValue(SubSeq(x.man, 1, x.exp))

\* the clock: seconds
Day == 24 * 60 * 60
\* "start_time = time.time()" just before the loop: the first day ends
start_time == Day
SECONDS_IN_WEEK == 7 * 24 * 60 * 60
\* time.sleep(30) after a full tick
TickSleep == 30
\* seconds the blocking calls of one iteration (the ledger, the fetches)
\* take in a run that the week ends after n iterations
CallSeconds(n) == SECONDS_IN_WEEK \div n

\* faulty variant: the run ends only after more than a week
WeekPassed(now_ts) == now_ts - start_time > SECONDS_IN_WEEK

\* "time.time() - start_time >= SECONDS_IN_WEEK"
WeekOver(now_ts) == now_ts - start_time >= SECONDS_IN_WEEK
\* "if now_ts - last_brain_update_ts > 300"
BRAIN_REFRESH_S == 300
\* time.sleep(15) of an iteration without a new bar
NoProgressSleep == 15

\* ---------------------------------------------------------------------
\* Connectors, symbols, venue market data
\* ---------------------------------------------------------------------
K1 == <<"bybit", "BTC/USDT">>
K2 == <<"alpaca", "AAPL">>
\* iteration order of "for c_cfg, conn in conns: for sym in symbols"
KeyOrder == <<K1, K2>>
Keys == {KeyOrder[i] : i \in 1..Len(KeyOrder)}
Symbols == {k[2] : k \in Keys}
\* the symbols of the closed trades of the ledger: those the run trades and
\* one that an earlier run traded
LedgerSymbols == Symbols \cup {"ETH/USDT"}
ConnType(k) == IF k[1] = "alpaca" THEN "alpaca" ELSE "ccxt"

\* market(symbol) of the ccxt exchange: limits.amount.min, limits.cost.min
\* and the amount step; the Alpaca connector has no market() (the lookup
\* raises and is caught), so exits see step 0 / min 0 and entries step 1.0
CcxtMarket == [step |-> 2, min_qty |-> 4, min_cost |-> 2400]
AlpacaShare == [step |-> 4]

\* inputs of a bar: close and ATR (None: NaN), per key
Prices(k) == IF k = K1 THEN {400, 800, 1200} ELSE {800, 1200}
ATRs(k) == IF k = K1 THEN {None, 0, 200} ELSE {200}
\* what get_live_position_qty may report on the ccxt venue (None: unknown)
CcxtLiveQtys == {None, 0, 3, 4, 12}
\* Alpaca buying power of a tick (0: fetch failed or nothing reported)
BuyingPowers == {0, 2400}
\* what the venue answers to the order: an order with an id, an order
\* without an "id" field, an order whose "id" is null, or an exception
Responses == {"id", "noid", "nullid", "raise"}
\* long_setup / short_setup of the row: 1, -1 or 0
Signals == {1, 0 - 1, 0}
\* what _fetch_blocked_symbols may return
BlockedChoices == {{}, {"BTC/USDT"}}

\* ---------------------------------------------------------------------
\* Pure helpers of run_live_week.py
\* ---------------------------------------------------------------------
round_step(x, step) == IF step <= 0 THEN x ELSE (x \div step) * step

\* round_step(min_cost / price, step) in quarters, of a min_cost of n / 400,
\* a price of d / 100 and a step of step / 4 (n >= 0, d > 0, step > 0):
\* math.floor of the float quotients.  The floats are within 2^-50 of the
\* fractions: where n / (d * step) is no whole number its floor is theirs,
\* and where min_cost and price are binary fractions the floats are exact;
\* elsewhere the digits of the floats decide
round_step_rat(n, d, step) ==
    IF n % (d * step) # 0 \/ (n % 25 = 0 /\ d % 25 = 0)
    THEN (n \div (d * step)) * step
    ELSE FloatFloor(FloatQuot(FloatQuot(FloatDiv(n, 400), FloatDiv(d, 100)),
                              FloatDiv(step, 4))) * step

get_min_amount_from_market(k) ==
    IF ConnType(k) = "ccxt" THEN CcxtMarket.min_qty ELSE 0

\* step seen by normalize_position_qty (0 when the market lookup raises)
ExitStepSize(k) == IF ConnType(k) = "ccxt" THEN CcxtMarket.step ELSE 0

normalize_position_qty(k, qty) ==
    IF qty <= 0 THEN 0
    ELSE LET q1 == IF ExitStepSize(k) > 0 THEN round_step(qty, ExitStepSize(k)) ELSE qty
             \* threshold = min_qty if min_qty > 0 else 1e-8; one quantity
             \* unit is far above 1e-8
             threshold == IF get_min_amount_from_market(k) > 0
                          THEN get_min_amount_from_market(k) ELSE 1
         IN IF q1 < threshold THEN 0 ELSE q1

\* get_live_position_qty: the Alpaca connector has neither
\* fetch_positions nor market(), both attempts raise -> (None, "spot")
LiveQtys(k) == IF ConnType(k) = "ccxt" THEN CcxtLiveQtys ELSE {None}

\* compute_close_qty(conn, symbol, side, requested_qty, fallback_qty)
\* returns <<close_qty, live_qty>>; live is the venue's report
compute_close_qty(requested_qty, fallback_qty, live) ==
    IF requested_qty <= 0 THEN <<0, fallback_qty>>
    ELSE LET l0 == IF live = None THEN fallback_qty ELSE live
             live_qty == Max(l0, 0)
         IN IF live_qty <= 0 THEN <<0, live_qty>>
            ELSE <<Min(requested_qty, live_qty), live_qty>>

\* the answers drawn for a key, one for each branch of place_order: on the
\* ccxt path an order without "id" and one whose "id" is null both give
\* order.get("id") = None (502); on the Alpaca path an order without "id"
\* and an exception both end in the except clause (477-479)
Answers(k) ==
    IF ConnType(k) = "alpaca" THEN Responses \ {"noid"} ELSE Responses \ {"nullid"}

\* AlpacaConnector.create_market_order: getattr(order, "_raw",
\* {"id": str(order.id)}) evaluates its default first, so an order without
\* an "id" field raises AttributeError; otherwise the order's _raw is returned
create_market_order(resp) == IF resp \in {"raise", "noid"} THEN "raise" ELSE resp

\* place_order: TRUE iff a truthy order id is returned.  The Alpaca path
\* returns None when create_market_order raises and replaces a null id by
\* str(order), a non-empty string; the ccxt path returns order.get("id")
place_order(k, resp) ==
    IF ConnType(k) = "alpaca"
    THEN create_market_order(resp) # "raise"
    ELSE resp = "id"

\* qty * pct (pct in hundredths)
Pct(qty, pct) == (qty * pct) \div 100

\* ---------------------------------------------------------------------
\* Configuration (config.yml) and Brain presets
\* ---------------------------------------------------------------------
\* trade_manager / portfolio sections of config.yml.  Two configurations:
\* a custom one (tight exposure cap, tight trailing, short time exit) and
\* the same with a zero stop multiplier (degenerate risk distance).
CfgBase == [risk_per_trade |-> 30, max_position_pct |-> 10,
            atr_k_sl |-> 150, r1_R |-> 100, r2_R |-> 200,
            p1_pct |-> 50, p2_pct |-> 50, be_after_R |-> 80,
            trail_atr_k |-> 50, max_bars_in_trade |-> 2]
Configs == {CfgBase, [CfgBase EXCEPT !.atr_k_sl = 0]}
Equity0 == 40000

\* analyzer_v2.MODE_CONFIGS and the fixed parameters
MODE_CONFIGS == [DEFENSIVE  |-> [risk_per_trade |-> 3, max_portfolio_exposure |-> 30, trail_atr_k |-> 100],
                 NORMAL     |-> [risk_per_trade |-> 5, max_portfolio_exposure |-> 60, trail_atr_k |-> 120],
                 AGGRESSIVE |-> [risk_per_trade |-> 8, max_portfolio_exposure |-> 80, trail_atr_k |-> 100]]
MAX_NOTIONAL_PCT_HARD_DEFAULT == 20
ATR_K_SL == 150
R1_R == 100
R2_R == 250
P1_PCT == 50
P2_PCT == 50
BE_AFTER_R == 80
MAX_BARS_IN_TRADE == 48

BrainSettings(mode, blocked) ==
    [mode |-> mode,
     risk_per_trade |-> MODE_CONFIGS[mode].risk_per_trade,
     max_portfolio_exposure |-> MODE_CONFIGS[mode].max_portfolio_exposure,
     max_notional_pct_hard |-> MAX_NOTIONAL_PCT_HARD_DEFAULT,
     atr_k_sl |-> ATR_K_SL, r1_R |-> R1_R, r2_R |-> R2_R,
     p1_pct |-> P1_PCT, p2_pct |-> P2_PCT, be_after_R |-> BE_AFTER_R,
     trail_atr_k |-> MODE_CONFIGS[mode].trail_atr_k,
     max_bars_in_trade |-> MAX_BARS_IN_TRADE,
     blocked_symbols |-> blocked]

Raise == [mode |-> "RAISE"]
MIN_TRADES == 10

\* get_brain_settings as seen by the loop.  n_trades: closed trades read,
\* db_fail: the read of closed trades raises, blocked: the result of
\* _fetch_blocked_symbols.  With 10 or more trades the final constructor is
\* called with the unknown keyword p2_PCT and raises a TypeError.
get_brain_settings(n_trades, db_fail, blocked) ==
    IF db_fail THEN Raise
    ELSE IF n_trades < MIN_TRADES THEN BrainSettings("NORMAL", blocked)
    ELSE Raise

\* ---------------------------------------------------------------------
\* State
\* ---------------------------------------------------------------------
VARIABLES
    pc,                 \* position of the loop
    cur,                \* index of the position / key being processed
    ticks,              \* completed loop iterations
    db,                 \* a ledger (DB) is configured
    ledger_faulty,      \* the ledger's calls may raise (connection trouble)
    equity,
    rm,                 \* RiskManager: risk_per_trade, max_position_pct
    tm,                 \* TradeManager
    blocked_symbols,
    max_notional_pct_hard,
    last_brain_update_ts,  \* 0.0 at first, then time.time() of the last refresh
    last_bar_ts,        \* key -> 0: no bar seen yet, 1: the last bar's timestamp
    snapshots,          \* key -> row of this tick or NoRow
    open_positions,     \* key -> position or NoPos
    open_order,         \* insertion order of the open_positions dict
    to_close,
    remaining_notional, \* whole: in hundredths of the equity unit; residue
    orders,             \* venue interactions of this iteration, in order
    ledger,             \* db.close_live_trade calls of this iteration, in order
    now,                \* time.time(), in seconds
    symbol_overrides,   \* rows of the table symbol_overrides with is_blocked
    live_trades,        \* closed trades the ledger returns, newest 200
    brain_log,          \* what the last iteration's Brain update printed
    cfg_symbol,         \* a symbol of the configuration, as it is written
    guard,              \* what the entry loop's stable-pair guard did with it
    call_seconds        \* seconds the blocking calls of an iteration take in this run

\* the ledger tables the Brain reads and what it printed
brain_vars == <<symbol_overrides, live_trades, brain_log>>

\* a configured symbol in front of the hard filter
guard_vars == <<cfg_symbol, guard>>

vars == <<pc, cur, ticks, db, ledger_faulty, guard_vars, call_seconds, now, brain_vars, equity, rm, tm,
          blocked_symbols,
          max_notional_pct_hard, last_brain_update_ts, last_bar_ts,
          snapshots, open_positions, open_order, to_close,
          remaining_notional, orders, ledger>>

NoRow == [close |-> None, atr |-> None]
\* per symbol: closed trades with a profit of one risk unit (win), a loss of
\* one risk unit (loss), no profit (flat), and a profit with no risk_usd
\* recorded (unrated)
Outcomes == {"win", "loss", "flat", "unrated"}
NoCounts == [s \in LedgerSymbols |-> [o \in Outcomes |-> 0]]
\* recent: the newest 50 closed trades (all of them when fewer), older: the
\* rest of the newest 200; first_entry, first_exit: equity_at_entry and
\* equity_at_exit of the oldest trade of recent, eq_end: equity_at_exit of
\* the newest (0 when not recorded)
NoTrades == [recent |-> NoCounts, older |-> NoCounts,
             first_entry |-> 0, first_exit |-> 0, eq_end |-> 0]
NoCycle == [outcome |-> "none", n |-> 0, mode |-> "none", blocked_read |-> "none"]
NoPos == [side |-> "none"]
\* remaining_notional = 0.0.  whole: the amount in hundredths of the equity
\* unit; residue: 1 for an amount above 0.0 and below every such hundredth
NoBudget == [whole |-> 0, residue |-> 0]
NoSymbol == [base |-> <<>>, quote |-> <<>>, form |-> "none", lower |-> FALSE]
\* the runs of the loop over its two symbols do not follow the filter
NoGuardRun == cfg_symbol = NoSymbol /\ guard = "none"
\* every price with a usable ATR; the unusable ATRs at one price
Rows(k) == [close : Prices(k), atr : ATRs(k) \ {None, 0}]
           \cup [close : {800}, atr : ATRs(k) \cap {None, 0}]
\* the rows a fetch may deliver: a failed fetch of a symbol leaves no row
RowChoices == {r \in [Keys -> UNION {Rows(k) : k \in Keys} \cup {NoRow}] :
                 \A k \in Keys : r[k] \in Rows(k) \cup {NoRow}}

IsOpen(k) == open_positions[k] # NoPos
OpenKeys == {k \in Keys : IsOpen(k)}

LoopInitWith(configs) ==
    /\ pc = "brain"
    /\ cur = 1
    /\ ticks = 0
    /\ db \in BOOLEAN
    /\ equity = Equity0
    /\ \E cfg \in configs :
         /\ rm = [risk_per_trade |-> cfg.risk_per_trade,
                  max_position_pct |-> cfg.max_position_pct]
         /\ tm = [atr_k_sl |-> cfg.atr_k_sl, r1_R |-> cfg.r1_R, r2_R |-> cfg.r2_R,
                  p1_pct |-> cfg.p1_pct, p2_pct |-> cfg.p2_pct,
                  be_after_R |-> cfg.be_after_R, trail_atr_k |-> cfg.trail_atr_k,
                  max_bars_in_trade |-> cfg.max_bars_in_trade]
    /\ blocked_symbols = {}
    /\ max_notional_pct_hard = 20
    /\ last_brain_update_ts = 0
    /\ last_bar_ts = [k \in Keys |-> 0]
    /\ snapshots = [k \in Keys |-> NoRow]
    /\ open_positions = [k \in Keys |-> NoPos]
    /\ open_order = <<>>
    /\ to_close = {}
    /\ remaining_notional = NoBudget
    /\ orders = <<>>
    /\ ledger = <<>>

LoopInit == LoopInitWith(Configs)

\* the ledger holds no closed trade and no blocked symbol
Init ==
    /\ LoopInit
    /\ ledger_faulty = FALSE
    /\ NoGuardRun
    /\ call_seconds = CallSeconds(MaxTicks - 1)
    /\ now = Day
    /\ symbol_overrides = {}
    /\ live_trades = NoTrades
    /\ brain_log = NoCycle

\* ---------------------------------------------------------------------
\* Brain update at the top of the loop (run_live_week.py 812-844)
\* ---------------------------------------------------------------------
\* faulty variant: the trade parameters are left for a later step
TradeParamsLater(bs) == tm

\* "tm.atr_k_sl = bs.atr_k_sl ... tm.max_bars_in_trade = bs.max_bars_in_trade"
TradeParams(bs) ==
    [atr_k_sl |-> bs.atr_k_sl, r1_R |-> bs.r1_R, r2_R |-> bs.r2_R,
     p1_pct |-> bs.p1_pct, p2_pct |-> bs.p2_pct, be_after_R |-> bs.be_after_R,
     trail_atr_k |-> bs.trail_atr_k, max_bars_in_trade |-> bs.max_bars_in_trade]

\* more than 300 s since the last refresh (time.time() against 0.0 at first)
RefreshDue == now - last_brain_update_ts > BRAIN_REFRESH_S

BrainUpdate ==
    /\ pc = "brain"
    /\ pc' = "fetch"
    /\ \/ \* no ledger, or no more than 300 s since the last refresh
          /\ (~db \/ ~RefreshDue)
          /\ UNCHANGED <<rm, tm, blocked_symbols, max_notional_pct_hard,
                         last_brain_update_ts>>
       \/ \* a ledger, and more than 300 s since the last refresh (always so
          \* while last_brain_update_ts is still 0.0)
          /\ db
          /\ RefreshDue
          /\ \E n_trades \in {0, MIN_TRADES}, db_fail \in BOOLEAN,
                blocked \in BlockedChoices :
               LET bs == get_brain_settings(n_trades, db_fail, blocked)
               IN IF bs = Raise
                  THEN UNCHANGED <<rm, tm, blocked_symbols,
                                   max_notional_pct_hard, last_brain_update_ts>>
                  ELSE /\ last_brain_update_ts' = now
                       /\ rm' = [risk_per_trade |-> bs.risk_per_trade,
                                 max_position_pct |-> bs.max_portfolio_exposure]
                       /\ tm' = TradeParams(bs)
                       /\ blocked_symbols' = bs.blocked_symbols
                       /\ max_notional_pct_hard' = bs.max_notional_pct_hard
    /\ UNCHANGED <<cur, ticks, db, ledger_faulty, guard_vars, call_seconds, now, brain_vars, equity, last_bar_ts, snapshots,
                   open_positions, open_order, to_close, remaining_notional,
                   orders, ledger>>

\* ---------------------------------------------------------------------
\* Fetch of the snapshots and the new-bar check (854-902)
\* ---------------------------------------------------------------------
\* Timestamps are only compared with the last one seen for the key: the
\* row fetched for a key seen before carries that timestamp (same) or not.
Seen(rows) == {k \in Keys : rows[k] # NoRow /\ last_bar_ts[k] # 0}

\* progressed_any
Progressed(rows, same) == \E k \in Keys : rows[k] # NoRow /\ k \notin same

SeenBars(rows) ==
    [k \in Keys |-> IF rows[k] # NoRow THEN 1 ELSE last_bar_ts[k]]

FetchNewBar ==
    /\ pc = "fetch"
    /\ \E rows \in RowChoices :
       \E same \in SUBSET Seen(rows) :
         /\ Progressed(rows, same)
         /\ last_bar_ts' = SeenBars(rows)
         /\ snapshots' = rows
    /\ now' = now + call_seconds
    /\ pc' = "manage"
    /\ cur' = 1
    /\ to_close' = {}
    /\ UNCHANGED <<ticks, db, ledger_faulty, guard_vars, call_seconds, brain_vars, equity, rm, tm, blocked_symbols,
                   max_notional_pct_hard, last_brain_update_ts,
                   open_positions, open_order, remaining_notional, orders,
                   ledger>>

\* no key has a new bar (891-902): time.sleep(15), then the clock is read:
\* break when the week is over, else the next iteration
FetchNoNewBar ==
    /\ pc = "fetch"
    /\ \E rows \in RowChoices :
       \E same \in SUBSET Seen(rows) :
         /\ ~Progressed(rows, same)
         /\ last_bar_ts' = SeenBars(rows)
    /\ now' = now + call_seconds + NoProgressSleep
    /\ ticks' = ticks + 1
    /\ pc' = IF WeekOver(now') THEN "done" ELSE "brain"
    /\ UNCHANGED <<cur, db, ledger_faulty, guard_vars, call_seconds, brain_vars, equity, rm, tm, blocked_symbols,
                   max_notional_pct_hard, last_brain_update_ts, snapshots,
                   open_positions, open_order, to_close, remaining_notional,
                   orders, ledger>>

\* ---------------------------------------------------------------------
\* Position management (904-1302), one position after the other
\* ---------------------------------------------------------------------
CurKey == open_order[cur]
CurPos == open_positions[CurKey]
CurRow == snapshots[CurKey]

\* "if atr_now:" - None and 0.0 are falsy
AtrTruthy(atr) == atr # None /\ atr # 0

TrailLevel(side, price, atr, k_trail) ==
    IF side = "long" THEN price - (k_trail * atr) \div 100
    ELSE price + (k_trail * atr) \div 100

\* faulty variant: the stop follows the level in both directions
FollowLevel(side, sl, level) == level

\* faulty variant: max and min exchanged
LoosenSL(side, sl, level) ==
    IF side = "long" THEN Min(sl, level) ELSE Max(sl, level)

TightenSL(side, sl, level) ==
    IF side = "long" THEN Max(sl, level) ELSE Min(sl, level)

BeReached(side, price, entry, R, be_after_R) ==
    IF side = "long" THEN 100 * price >= 100 * entry + be_after_R * R
    ELSE 100 * price <= 100 * entry - be_after_R * R

\* faulty variant: the stop is left for after the exit checks
StopsLater(pos, row) == pos

\* trailing SL, then move SL to break-even
StopsAfter(pos, row) ==
    LET sl1 == IF AtrTruthy(row.atr)
               THEN TightenSL(pos.side, pos.sl,
                              TrailLevel(pos.side, row.close, row.atr, tm.trail_atr_k))
               ELSE pos.sl
        be == /\ ~pos.moved_to_be
              /\ AtrTruthy(row.atr)
              /\ BeReached(pos.side, row.close, pos.entry, pos.R, tm.be_after_R)
    IN [pos EXCEPT !.sl = IF be THEN TightenSL(pos.side, sl1, pos.entry) ELSE sl1,
                   !.moved_to_be = pos.moved_to_be \/ be]

\* faulty variant: a missing snapshot is not noticed
AlwaysThere(row) == FALSE

\* "row = snapshots.get(key); if row is None: continue"
SnapshotMissing(row) == row = NoRow

\* next position of the loop; a position without a snapshot is skipped
ManagePos ==
    /\ pc = "manage"
    /\ cur <= Len(open_order)
    /\ IF SnapshotMissing(CurRow)
       THEN cur' = cur + 1 /\ UNCHANGED <<pc, open_positions>>
       ELSE /\ pc' = "tp1"
            /\ open_positions' = [open_positions EXCEPT ![CurKey] = StopsAfter(CurPos, CurRow)]
            /\ UNCHANGED cur
    /\ UNCHANGED <<ticks, db, ledger_faulty, guard_vars, call_seconds, now, brain_vars, equity, rm, tm, blocked_symbols,
                   max_notional_pct_hard, last_brain_update_ts, last_bar_ts,
                   snapshots, open_order, to_close, remaining_notional, orders,
                   ledger>>

Reached(side, price, level) ==
    IF side = "long" THEN price >= level ELSE price <= level

Stopped(side, price, sl) ==
    IF side = "long" THEN price <= sl ELSE price >= sl

Pnl(side, entry, exit_price, close_qty) ==
    IF side = "long" THEN (exit_price - entry) * close_qty
    ELSE (entry - exit_price) * close_qty

IsDust(k, live_qty) ==
    /\ live_qty > 0
    /\ get_min_amount_from_market(k) > 0
    /\ live_qty < get_min_amount_from_market(k)

\* faulty variant: the difference is taken the wrong way round, unclamped
QtyDifference(k, live_qty, close_qty) == close_qty - live_qty

QtyAfterClose(k, live_qty, close_qty) ==
    normalize_position_qty(k, Max(0, live_qty - close_qty))

\* one venue interaction of the iteration: an exit evaluation (with the
\* live quantity the venue reported and the answer to the order, "none"
\* when no order was sent) or an entry order
Event(k, kind, side, live, qty, resp, price, budget) ==
    [key |-> k, kind |-> kind, side |-> side, live |-> live, qty |-> qty,
     resp |-> resp, price |-> price, budget |-> budget]

IsTP(kind) == kind \in {"TP1", "TP2"}

\* The body of one exit block once its trigger holds.  Result:
\*   pos    the position afterwards
\*   pnl    what is added to equity
\*   close  the key is appended to to_close
\*   cont   "continue": the rest of the position's blocks is skipped
\*   sent   an order was sent to the venue
\*   exit_type  the exit_type the block hands to db.close_live_trade,
\*              "none" where the block has no such call
ExitOutcome(k, pos, kind, requested, exit_price, live, resp) ==
    LET cq == compute_close_qty(requested, pos.qty, live)
        close_qty == cq[1]
        live_qty == cq[2]
    IN IF IsDust(k, live_qty)
       THEN [pos |-> IF IsTP(kind)
                     THEN [pos EXCEPT !.qty = 0, !.tp1_done = TRUE, !.tp2_done = TRUE]
                     ELSE [pos EXCEPT !.qty = 0],
             pnl |-> 0, close |-> TRUE, cont |-> TRUE, sent |-> FALSE, qty |-> 0,
             exit_type |-> "DUST"]
       ELSE IF close_qty <= 0
       THEN [pos |-> pos, pnl |-> 0, close |-> FALSE, cont |-> FALSE,
             sent |-> FALSE, qty |-> 0, exit_type |-> "none"]
       ELSE IF ~place_order(k, resp)
       THEN [pos |-> pos, pnl |-> 0, close |-> FALSE, cont |-> FALSE,
             sent |-> TRUE, qty |-> close_qty, exit_type |-> "none"]
       ELSE LET pnl == Pnl(pos.side, pos.entry, exit_price, close_qty)
                p1 == [pos EXCEPT !.realized_pnl = @ + pnl,
                                  !.qty = QtyAfterClose(k, live_qty, close_qty)]
            IN [pos |-> IF kind = "TP1" THEN [p1 EXCEPT !.tp1_done = TRUE]
                        ELSE IF kind = "TP2" THEN [p1 EXCEPT !.tp2_done = TRUE]
                        ELSE p1,
                pnl |-> pnl, close |-> ~IsTP(kind), cont |-> FALSE,
                sent |-> TRUE, qty |-> close_qty,
                exit_type |-> IF IsTP(kind) THEN "none" ELSE kind]

\* the arguments of one db.close_live_trade call
close_live_trade(trade_id, exit_price, realized_pnl, exit_type, equity_at_exit) ==
    [trade_id |-> trade_id, exit_price |-> exit_price,
     realized_pnl |-> realized_pnl, exit_type |-> exit_type,
     equity_at_exit |-> equity_at_exit]

\* the block calls db.close_live_trade:
\* "if trade_id and db and hasattr(db, 'close_live_trade')"
LedgerCalled(pos, out) == out.exit_type # "none" /\ pos.trade_id # None /\ db

\* the price reported is the block's exit price, on its dust path too;
\* raised: the call ended in an exception and nothing was written
LedgerAfter(pos, out, exit_price, raised) ==
    IF LedgerCalled(pos, out)
    THEN Append(ledger,
                close_live_trade(pos.trade_id, exit_price, out.pos.realized_pnl,
                                 out.exit_type, equity + out.pnl)
                @@ [raised |-> raised])
    ELSE ledger

\* a call of the ledger may raise only when the ledger is faulty
LedgerRaises(called) == IF called /\ ledger_faulty THEN BOOLEAN ELSE {FALSE}

\* faulty variant: the exception of the ledger leaves the block, the key is
\* not appended to to_close
UncaughtClose(out, raised) == IF raised THEN [out EXCEPT !.close = FALSE] ELSE out

\* "except Exception as e: print(...)": the block goes on after the call
CaughtClose(out, raised) == out

\* the venue is asked for the live quantity only when something is requested
LiveChoices(k, requested) == IF requested > 0 THEN LiveQtys(k) ELSE {None}

\* the exit block of `kind` acts on the current position and the loop goes
\* on at next_pc (or at the next position after a "continue")
ExitBlock(pos, kind, requested, exit_price, next_pc) ==
    \E live \in LiveChoices(CurKey, requested), resp \in Answers(CurKey) \cup {"none"} :
     \E raised \in LedgerRaises(LedgerCalled(pos,
                     ExitOutcome(CurKey, pos, kind, requested, exit_price, live, resp))) :
      LET out == CaughtClose(ExitOutcome(CurKey, pos, kind, requested, exit_price,
                                         live, resp), raised)
      IN /\ (resp = "none") <=> ~out.sent
         /\ open_positions' = [open_positions EXCEPT ![CurKey] = out.pos]
         /\ equity' = equity + out.pnl
         /\ to_close' = IF out.close THEN to_close \cup {CurKey} ELSE to_close
         /\ ledger' = LedgerAfter(pos, out, exit_price, raised)
         /\ orders' = Append(orders, Event(CurKey, kind, pos.side, live, out.qty,
                                           resp, CurRow.close, 0))
         /\ IF out.cont \/ next_pc = "manage"
            THEN pc' = "manage" /\ cur' = cur + 1
            ELSE pc' = next_pc /\ UNCHANGED cur

ExitFrame ==
    UNCHANGED <<ticks, db, ledger_faulty, guard_vars, call_seconds, now, brain_vars, rm, tm, blocked_symbols, max_notional_pct_hard,
                last_brain_update_ts, last_bar_ts, snapshots, open_order,
                remaining_notional>>

\* TP1 (942-1025)
TP1Step ==
    /\ pc = "tp1"
    /\ IF ~CurPos.tp1_done /\ Reached(CurPos.side, CurRow.close, CurPos.tp1)
       THEN ExitBlock(CurPos, "TP1", Pct(CurPos.qty, tm.p1_pct), CurRow.close, "tp2")
       ELSE pc' = "tp2" /\ UNCHANGED <<cur, open_positions, equity, to_close, orders, ledger>>
    /\ ExitFrame

\* TP2 (1027-1110)
TP2Step ==
    /\ pc = "tp2"
    /\ IF ~CurPos.tp2_done /\ Reached(CurPos.side, CurRow.close, CurPos.tp2)
       THEN ExitBlock(CurPos, "TP2", Pct(CurPos.qty, tm.p2_pct), CurRow.close, "sl")
       ELSE pc' = "sl" /\ UNCHANGED <<cur, open_positions, equity, to_close, orders, ledger>>
    /\ ExitFrame

\* SL (1112-1206): filled at the stop price
SLStep ==
    /\ pc = "sl"
    /\ IF Stopped(CurPos.side, CurRow.close, CurPos.sl)
       THEN ExitBlock(CurPos, "SL", CurPos.qty, CurPos.sl, "time")
       ELSE pc' = "time" /\ UNCHANGED <<cur, open_positions, equity, to_close, orders, ledger>>
    /\ ExitFrame

\* TIME exit (1208-1302): the bar is counted first
TimeStep ==
    /\ pc = "time"
    /\ LET pos == [CurPos EXCEPT !.bars = @ + 1]
       IN IF pos.bars >= tm.max_bars_in_trade /\ ~pos.tp2_done
          THEN ExitBlock(pos, "TIME", pos.qty, CurRow.close, "manage")
          ELSE /\ open_positions' = [open_positions EXCEPT ![CurKey] = pos]
               /\ pc' = "manage"
               /\ cur' = cur + 1
               /\ UNCHANGED <<equity, to_close, orders, ledger>>
    /\ ExitFrame

\* ---------------------------------------------------------------------
\* End of the management phase: removal of to_close, exposure (1304-1317)
\* ---------------------------------------------------------------------
RECURSIVE RemoveKeys(_, _)
RemoveKeys(seq, S) ==
    IF seq = <<>> THEN <<>>
    ELSE IF Head(seq) \in S THEN RemoveKeys(Tail(seq), S)
    ELSE <<Head(seq)>> \o RemoveKeys(Tail(seq), S)

RECURSIVE SumOver(_, _)
SumOver(S, f) ==
    IF S = {} THEN 0
    ELSE LET x == CHOOSE y \in S : TRUE
         IN f[x] + SumOver(S \ {x}, f)

\* portfolio_notional: positions without a snapshot in this tick are skipped
PortfolioNotional(positions) ==
    SumOver({k \in Keys : positions[k] # NoPos /\ snapshots[k] # NoRow},
            [k \in Keys |-> IF positions[k] # NoPos /\ snapshots[k] # NoRow
                            THEN positions[k].qty * snapshots[k].close
                            ELSE 0])

\* "max_portfolio_notional = equity * rm.max_position_pct", the float
MaxPortfolioNotional ==
    FloatMul(FloatDiv(equity, 400), FloatDiv(rm.max_position_pct, 100))

\* max(0.0, max_portfolio_notional - spent), the float; spent in hundredths
\* of the equity unit.  Notionals are quantities in quarters at prices that
\* are binary fractions: the floats hold them and their sums exactly, and
\* taking them from max_portfolio_notional one by one or all at once leaves
\* the same float, since no such difference is rounded
FloatLeft(spent) ==
    FloatMax(FloatZero, FloatSub(MaxPortfolioNotional, FloatDiv(spent, 40000)))

\* the budget that is left when the exact numbers leave `whole` of
\* max_portfolio_notional after `spent`: nothing where whole < 0, whole where
\* whole > 0 (the floats are within 2^-49 of it), and where whole = 0 what
\* the floats leave: 0.0, or an amount above it (100.0 * 0.14 is
\* 14.000000000000002, and 1.78e-15 is left of it after 14.0)
Budget(whole, spent) ==
    IF whole < 0 THEN NoBudget
    ELSE IF whole > 0 THEN [whole |-> whole, residue |-> 0]
    ELSE [whole |-> 0, residue |-> IF IsZero(FloatLeft(spent)) THEN 0 ELSE 1]

\* "remaining_notional = max(0.0, max_portfolio_notional - portfolio_notional)"
RemainingNotional(positions) ==
    Budget(equity * rm.max_position_pct - 100 * PortfolioNotional(positions),
           100 * PortfolioNotional(positions))

CloseOut ==
    /\ pc = "manage"
    /\ cur > Len(open_order)
    /\ LET positions == [k \in Keys |-> IF k \in to_close THEN NoPos
                                        ELSE open_positions[k]]
       IN /\ open_positions' = positions
          /\ remaining_notional' = RemainingNotional(positions)
    /\ open_order' = RemoveKeys(open_order, to_close)
    /\ pc' = "enter"
    /\ cur' = 1
    /\ UNCHANGED <<ticks, db, ledger_faulty, guard_vars, call_seconds, now, brain_vars, equity, rm, tm, blocked_symbols,
                   max_notional_pct_hard, last_brain_update_ts, last_bar_ts,
                   snapshots, to_close, orders, ledger>>

\* ---------------------------------------------------------------------
\* New entries (1319-1501), one key after the other
\* ---------------------------------------------------------------------
\* faulty variant: the blocked set is not consulted
NeverBlocked(sym) == FALSE

EntryBlocked(sym) == sym \in blocked_symbols

\* "row is None or pd.isna(row.get('atr')) or row['atr'] <= 0" skips
RowUsable(row) == row # NoRow /\ row.atr # None /\ row.atr > 0

EntrySL(side, price, atr) ==
    IF side = "long" THEN price - (tm.atr_k_sl * atr) \div 100
    ELSE price + (tm.atr_k_sl * atr) \div 100

EntryR(side, price, sl) ==
    IF side = "long" THEN price - sl ELSE sl - price

\* faulty variant: the risk distance is not checked
AnyRisk(R) == TRUE

\* "if R <= 0: continue"
RiskOk(R) == R > 0

EntryStepSize(k) ==
    IF ConnType(k) = "alpaca" THEN AlpacaShare.step ELSE CcxtMarket.step

\* the caps of qty_raw, each as the number of whole steps it allows;
\* qty_risk divides by max(R, 1e-12): with R <= 0 it is beyond every other
\* cap; a budget that is only a residue allows no step
QtyCaps(k, price, R, bp) ==
    LET step == EntryStepSize(k)
        unit == price * step
    IN (IF R > 0 THEN {(equity * rm.risk_per_trade) \div (1000 * R * step)} ELSE {})
       \cup {(equity * rm.max_position_pct) \div (100 * unit),
             remaining_notional.whole \div (100 * unit),
             (max_notional_pct_hard * equity) \div (100 * unit)}
       \cup (IF ConnType(k) = "alpaca" /\ bp > 0 THEN {bp \div unit} ELSE {})

\* round_step(max(0, min(caps)), step)
RoundedQty(k, price, R, bp) ==
    EntryStepSize(k) * Max(0, MinOf(QtyCaps(k, price, R, bp)))

\* "if min_qty is not None and qty < min_qty: qty = round_step(min_qty, step)"
RaiseToMinQty(k, qty) ==
    IF ConnType(k) = "ccxt" /\ qty < CcxtMarket.min_qty
    THEN round_step(CcxtMarket.min_qty, EntryStepSize(k))
    ELSE qty

\* "if min_cost is not None and qty * price < min_cost: ..."
RaiseToMinCost(k, qty, price) ==
    IF ConnType(k) = "ccxt" /\ qty * price < CcxtMarket.min_cost
    THEN Max(round_step(qty, EntryStepSize(k)),
             round_step_rat(CcxtMarket.min_cost, price, EntryStepSize(k)))
    ELSE qty

EntryQty(k, price, R, bp) ==
    RaiseToMinCost(k, RaiseToMinQty(k, RoundedQty(k, price, R, bp)), price)

NewPosition(side, price, sl, R, qty, trade_id) ==
    [side |-> side, entry |-> price, sl |-> sl,
     tp1 |-> IF side = "long" THEN price + (tm.r1_R * R) \div 100
             ELSE price - (tm.r1_R * R) \div 100,
     tp2 |-> IF side = "long" THEN price + (tm.r2_R * R) \div 100
             ELSE price - (tm.r2_R * R) \div 100,
     qty |-> qty, R |-> R, bars |-> 0,
     tp1_done |-> FALSE, tp2_done |-> FALSE, moved_to_be |-> FALSE,
     trade_id |-> trade_id, realized_pnl |-> 0]

\* "entry_notional = qty * price;
\*  remaining_notional = max(0.0, remaining_notional - entry_notional)"
BudgetAfter(remaining, qty, price) ==
    Budget(remaining.whole - 100 * qty * price,
           equity * rm.max_position_pct - remaining.whole + 100 * qty * price)

EntryKey == KeyOrder[cur]

\* is_equity_market_open is consulted for Alpaca equities only, and
\* alpaca_buying_power is used on the Alpaca branch only
MarketClosed(k) == IF ConnType(k) = "alpaca" THEN BOOLEAN ELSE {FALSE}
BuyingPower(k) == IF ConnType(k) = "alpaca" THEN BuyingPowers ELSE {0}

\* the id of the row db.open_live_trade inserts: ids grow with every insert
TradeId == ticks * Len(KeyOrder) + cur

\* trade_id stays None without a ledger and when open_live_trade raises
TradeIds == IF ~db THEN {None}
            ELSE IF ledger_faulty THEN {TradeId, None}
            ELSE {TradeId}

\* faulty variant: the open positions are not consulted
NoPositionCheck(k) == FALSE

\* "if remaining_notional <= 0: continue"
BudgetSpent(remaining) == remaining.whole <= 0 /\ remaining.residue <= 0

\* "if key in open_positions: continue"
HasPosition(k) == open_positions[k] # NoPos

EntryAdvance ==
    /\ cur' = cur + 1
    /\ pc' = IF cur = Len(KeyOrder) THEN "end" ELSE "enter"

EntrySkip ==
    UNCHANGED <<open_positions, open_order, remaining_notional, orders, ledger>>

EntryStep ==
    /\ pc = "enter"
    /\ EntryAdvance
    /\ IF \/ EntryBlocked(EntryKey[2])
          \/ BudgetSpent(remaining_notional)
          \/ HasPosition(EntryKey)
       THEN EntrySkip
       ELSE \E sig \in Signals, market_closed \in MarketClosed(EntryKey),
               bp \in BuyingPower(EntryKey), resp \in Answers(EntryKey) :
             \E trade_id \in IF place_order(EntryKey, resp) THEN TradeIds ELSE {None} :
              LET k == EntryKey
                  row == snapshots[k]
                  side == IF sig = 1 THEN "long" ELSE "short"
                  sl == EntrySL(side, row.close, row.atr)
                  R == EntryR(side, row.close, sl)
                  qty == EntryQty(k, row.close, R, bp)
              IN IF \/ (ConnType(k) = "alpaca" /\ market_closed)
                    \/ ~RowUsable(row)
                    \/ sig = 0
                    \/ ~RiskOk(R)
                    \/ qty <= 0
                 THEN EntrySkip
                 ELSE /\ orders' = Append(orders, Event(k, "ENTER", side, None, qty, resp,
                                                        row.close, remaining_notional.whole))
                      /\ UNCHANGED ledger
                      /\ IF ~place_order(k, resp)
                         THEN UNCHANGED <<open_positions, open_order, remaining_notional>>
                         ELSE /\ remaining_notional' =
                                   BudgetAfter(remaining_notional, qty, row.close)
                              /\ open_positions' =
                                   [open_positions EXCEPT ![k] = NewPosition(side, row.close, sl, R, qty,
                                                                          trade_id)]
                              /\ open_order' = Append(open_order, k)
    /\ UNCHANGED <<ticks, db, ledger_faulty, guard_vars, call_seconds, now, brain_vars, equity, rm, tm, blocked_symbols,
                   max_notional_pct_hard, last_brain_update_ts, last_bar_ts,
                   snapshots, to_close>>

\* ---------------------------------------------------------------------
\* End of the iteration (1503-1525): the logs are written, the clock is
\* read: break when the week is over, else time.sleep(30) and the next
\* iteration
\* ---------------------------------------------------------------------
EndTick ==
    /\ pc = "end"
    /\ ticks' = ticks + 1
    /\ pc' = IF WeekOver(now) THEN "done" ELSE "brain"
    /\ now' = IF WeekOver(now) THEN now ELSE now + TickSleep
    /\ cur' = 1
    /\ snapshots' = [k \in Keys |-> NoRow]
    /\ orders' = <<>>
    /\ ledger' = <<>>
    /\ to_close' = {}
    /\ remaining_notional' = NoBudget
    /\ UNCHANGED <<db, ledger_faulty, guard_vars, call_seconds, brain_vars, equity, rm, tm, blocked_symbols, max_notional_pct_hard,
                   last_brain_update_ts, last_bar_ts, open_positions, open_order>>

Next ==
    \/ BrainUpdate
    \/ FetchNewBar
    \/ FetchNoNewBar
    \/ ManagePos
    \/ TP1Step
    \/ TP2Step
    \/ SLStep
    \/ TimeStep
    \/ CloseOut
    \/ EntryStep
    \/ EndTick

Spec == Init /\ [][Next]_vars

\* ---------------------------------------------------------------------
\* The same loop under a configuration with a wide stop (2.5 ATR) and a
\* time exit after one bar, run without a ledger
\* ---------------------------------------------------------------------
CfgQuick == [CfgBase EXCEPT !.max_bars_in_trade = 1, !.atr_k_sl = 250]

QuickInit ==
    /\ LoopInitWith({CfgQuick})
    /\ ~db
    /\ ledger_faulty = FALSE
    /\ NoGuardRun
    /\ call_seconds = CallSeconds(MaxTicks - 1)
    /\ now = Day
    /\ symbol_overrides = {}
    /\ live_trades = NoTrades
    /\ brain_log = NoCycle

QuickSpec == QuickInit /\ [][Next]_vars

\* ---------------------------------------------------------------------
\* Stable-pair filter (run_live_week.py 135-173).  A symbol is a sequence
\* of characters.
\* ---------------------------------------------------------------------
USD == <<"U", "S", "D">>
USDT == <<"U", "S", "D", "T">>
USDC == <<"U", "S", "D", "C">>
USDG == <<"U", "S", "D", "G">>
BTC == <<"B", "T", "C">>
STABLE_TOKENS == {USD, USDT, USDC, USDG}

\* str.upper() and str.lower() on the characters in use
UpperChar(c) ==
    CASE c = "u" -> "U" [] c = "s" -> "S" [] c = "d" -> "D" [] c = "t" -> "T"
      [] c = "c" -> "C" [] c = "g" -> "G" [] c = "b" -> "B" [] OTHER -> c
LowerChar(c) ==
    CASE c = "U" -> "u" [] c = "S" -> "s" [] c = "D" -> "d" [] c = "T" -> "t"
      [] c = "C" -> "c" [] c = "G" -> "g" [] c = "B" -> "b" [] OTHER -> c
Upper(str) == [i \in 1..Len(str) |-> UpperChar(str[i])]
Lower(str) == [i \in 1..Len(str) |-> LowerChar(str[i])]

\* index of the first occurrence of the character, 0 when there is none
Find(str, c) ==
    IF \E i \in 1..Len(str) : str[i] = c
    THEN MinOf({i \in 1..Len(str) : str[i] = c})
    ELSE 0

\* faulty variant: the futures suffix is left on the symbol
KeepSuffix(str) == str

\* core.split(":")[0]
BeforeColon(str) ==
    IF Find(str, ":") = 0 THEN str ELSE SubSeq(str, 1, Find(str, ":") - 1)

\* str.strip()
RECURSIVE Strip(_)
Strip(str) ==
    IF str = <<>> THEN str
    ELSE IF Head(str) = " " THEN Strip(Tail(str))
    ELSE IF str[Len(str)] = " " THEN Strip(SubSeq(str, 1, Len(str) - 1))
    ELSE str

\* str.endswith(q)
EndsWith(str, q) ==
    Len(str) >= Len(q) /\ SubSeq(str, Len(str) - Len(q) + 1, Len(str)) = q

\* sorted(STABLE_TOKENS, key=len, reverse=True): the longer tokens first.
\* The sort is stable and STABLE_TOKENS is a set, so the order of the tokens
\* of one length is that of the set's iteration, which differs from one
\* process to the next: every such order is a possible result
StableBySize ==
    {s \in [1..Cardinality(STABLE_TOKENS) -> STABLE_TOKENS] :
       \A i, j \in DOMAIN s : i < j => s[i] # s[j] /\ Len(s[i]) >= Len(s[j])}

NoPair == <<<<>>, <<>>>>

\* the loop over the stable suffixes, from the i-th on
RECURSIVE GuessBySuffix(_, _, _)
GuessBySuffix(core, sorted, i) ==
    IF i > Len(sorted) THEN NoPair
    ELSE LET q == sorted[i]
             base == Strip(SubSeq(core, 1, Len(core) - Len(q)))
         IN IF EndsWith(core, q) /\ base # <<>> THEN <<base, q>>
            ELSE GuessBySuffix(core, sorted, i + 1)

\* (base, quote), NoPair for (None, None); sorted: the order of the stable
\* tokens in this process
extract_base_quote(symbol, sorted) ==
    IF symbol = <<>> THEN NoPair
    ELSE LET core == BeforeColon(Upper(symbol))
             slash == Find(core, "/")
         IN IF slash # 0
            THEN <<Strip(SubSeq(core, 1, slash - 1)),
                   Strip(SubSeq(core, slash + 1, Len(core)))>>
            ELSE GuessBySuffix(core, sorted, 1)

is_stable_pair_symbol(symbol, sorted) ==
    LET bq == extract_base_quote(symbol, sorted)
    IN IF bq[1] = <<>> \/ bq[2] = <<>> THEN FALSE
       ELSE bq[1] \in STABLE_TOKENS /\ bq[2] \in STABLE_TOKENS

\* the ways a pair is written in a configuration
Forms == {"slash", "spaced", "futures", "joined", "joined futures"}

\* the text of a symbol: base and quote with a slash (with or without
\* blanks around it), with the futures suffix ":" + quote, or joined
SymbolText(sym) ==
    LET text == CASE sym.form = "slash" -> sym.base \o <<"/">> \o sym.quote
                  [] sym.form = "spaced" -> sym.base \o <<" ", "/", " ">> \o sym.quote
                  [] sym.form = "futures" ->
                       sym.base \o <<"/">> \o sym.quote \o <<":">> \o sym.quote
                  [] sym.form = "joined" -> sym.base \o sym.quote
                  [] sym.form = "joined futures" ->
                       sym.base \o sym.quote \o <<":">> \o sym.quote
    IN IF sym.lower THEN Lower(text) ELSE text

ConfiguredSymbols ==
    [base : STABLE_TOKENS \cup {BTC}, quote : STABLE_TOKENS \cup {BTC},
     form : Forms, lower : BOOLEAN]

StableInit ==
    /\ LoopInitWith({CfgBase})
    /\ ~db
    /\ ledger_faulty = FALSE
    /\ now = Day
    /\ symbol_overrides = {}
    /\ live_trades = NoTrades
    /\ brain_log = NoCycle
    /\ cfg_symbol \in ConfiguredSymbols
    /\ guard = "none"
    /\ call_seconds = CallSeconds(MaxTicks - 1)

\* the head of the entry loop for the symbol (1322-1326): a stable pair is
\* passed over, any other symbol goes on to the entry conditions
StableGuard ==
    /\ guard = "none"
    /\ cfg_symbol # NoSymbol
    /\ \E sorted \in StableBySize :
         guard' = IF is_stable_pair_symbol(SymbolText(cfg_symbol), sorted)
                  THEN "continue" ELSE "evaluated"
    /\ UNCHANGED <<pc, cur, ticks, db, ledger_faulty, cfg_symbol, call_seconds, now, brain_vars,
                   equity,
                   rm, tm, blocked_symbols, max_notional_pct_hard,
                   last_brain_update_ts, last_bar_ts, snapshots, open_positions,
                   open_order, to_close, remaining_notional, orders, ledger>>

StableSpec == StableInit /\ [][StableGuard]_vars

\* ---------------------------------------------------------------------
\* Runs whose exposure limit leaves room for two entries in one tick
\* ---------------------------------------------------------------------
CfgWide == [CfgBase EXCEPT !.max_position_pct = 14, !.r1_R = 300, !.r2_R = 400]

WideInit ==
    /\ LoopInitWith({CfgWide})
    /\ ~db
    /\ ledger_faulty = FALSE
    /\ NoGuardRun
    /\ call_seconds = CallSeconds(MaxTicks - 1)
    /\ now = Day
    /\ symbol_overrides = {}
    /\ live_trades = NoTrades
    /\ brain_log = NoCycle

WideSpec == WideInit /\ [][Next]_vars

\* ---------------------------------------------------------------------
\* Runs with a configured ledger whose calls may raise, under a
\* configuration with the short time limit and far profit targets
\* ---------------------------------------------------------------------
CfgLedger == [CfgQuick EXCEPT !.r1_R = 300, !.r2_R = 400]

LedgerInit ==
    /\ LoopInitWith({CfgLedger})
    /\ db
    /\ ledger_faulty = TRUE
    /\ NoGuardRun
    /\ call_seconds = CallSeconds(MaxTicks - 1)
    /\ now = Day
    /\ symbol_overrides = {}
    /\ live_trades = NoTrades
    /\ brain_log = NoCycle

LedgerSpec == LedgerInit /\ [][Next]_vars

\* ---------------------------------------------------------------------
\* Runs under a configuration with the stop at 1.5 ATR and a time exit
\* after one bar, with or without a ledger
\* ---------------------------------------------------------------------
CfgTimed == [CfgBase EXCEPT !.max_bars_in_trade = 1]

TimedInit ==
    /\ LoopInitWith({CfgTimed})
    /\ ledger_faulty = FALSE
    /\ NoGuardRun
    /\ call_seconds = CallSeconds(MaxTicks - 1)
    /\ now = Day
    /\ symbol_overrides = {}
    /\ live_trades = NoTrades
    /\ brain_log = NoCycle

TimedSpec == TimedInit /\ [][Next]_vars

\* ---------------------------------------------------------------------
\* The Brain in detail (analyzer_v2.py): statistics of the closed trades,
\* mode, underperforming symbols, blocked symbols
\* ---------------------------------------------------------------------
\* Statistics are exact fractions num / den with den > 0; NoRat is None.
Rat(n, d) == [num |-> n, den |-> d]
NoRat == Rat(0, 0)
RatLe(a, b) == a.num * b.den <= b.num * a.den
RatSub(a, b) == Rat(a.num * b.den - b.num * a.den, a.den * b.den)
\* x if x is not None else default
OrElse(x, default) == IF x = NoRat THEN default ELSE x

CountLen(c) == c.win + c.loss + c.flat + c.unrated
\* the trades of all symbols of a window together
Pool(block) ==
    [o \in Outcomes |-> SumOver(LedgerSymbols, [s \in LedgerSymbols |-> block[s][o]])]
\* global_trades: everything fetched
AllTrades(h) ==
    [s \in LedgerSymbols |-> [o \in Outcomes |-> h.recent[s][o] + h.older[s][o]]]

\* wins are counted over all trades, R only where risk_usd > 0
compute_win_and_avgR(c) ==
    LET rated == c.win + c.loss + c.flat
    IN IF CountLen(c) = 0 \/ rated = 0
       THEN [win_rate |-> NoRat, avg_R |-> NoRat]
       ELSE [win_rate |-> Rat(c.win + c.unrated, CountLen(c)),
             avg_R |-> Rat(c.win - c.loss, rated)]

\* eq_start = equity_at_entry or equity_at_exit or 0.0 of the oldest trade:
\* `or` passes over a value that is missing or zero
eq_start(h) == IF h.first_entry # 0 THEN h.first_entry ELSE h.first_exit

compute_equity_change_pct(h) ==
    IF CountLen(Pool(h.recent)) < 2 \/ eq_start(h) <= 0 \/ h.eq_end <= 0
    THEN NoRat
    ELSE Rat(h.eq_end - eq_start(h), eq_start(h))

\* win50, avgR50, pnl50_pct with the defaults for None (318-327)
RecentStats(h) ==
    LET st == compute_win_and_avgR(Pool(h.recent))
    IN [win50 |-> OrElse(st.win_rate, Rat(0, 1)),
        avgR50 |-> OrElse(st.avg_R, Rat(0, 1)),
        pnl50_pct |-> OrElse(compute_equity_change_pct(h), Rat(0, 1))]

\* win_all, avgR_all with the defaults for None
BaselineStats(h) ==
    LET st == compute_win_and_avgR(Pool(AllTrades(h)))
    IN [win_all |-> OrElse(st.win_rate, RecentStats(h).win50),
        avgR_all |-> OrElse(st.avg_R, RecentStats(h).avgR50)]

\* faulty variant: DEFENSIVE only when both statistics are bad
SelectModeBoth(pnl50_pct, avgR50) ==
    IF RatLe(pnl50_pct, Rat(0 - 10, 100)) /\ RatLe(avgR50, Rat(0 - 25, 100))
    THEN "DEFENSIVE"
    ELSE IF RatLe(Rat(10, 100), pnl50_pct) /\ RatLe(Rat(7, 10), avgR50)
    THEN "AGGRESSIVE"
    ELSE "NORMAL"

\* the mode rule (333-340)
SelectMode(pnl50_pct, avgR50) ==
    IF RatLe(pnl50_pct, Rat(0 - 10, 100)) \/ RatLe(avgR50, Rat(0 - 25, 100))
    THEN "DEFENSIVE"
    ELSE IF RatLe(Rat(10, 100), pnl50_pct) /\ RatLe(Rat(7, 10), avgR50)
    THEN "AGGRESSIVE"
    ELSE "NORMAL"

\* the float of a statistic: one division of two exactly held integers
\* (wins / len(trades), sum(Rs) / len(Rs)), or a literal
Float(r) == FloatDiv(r.num, r.den)

\* x <= max(0.0, y - margin) in floats
FloatWithin(x, y, margin) ==
    FloatLe(Float(x), FloatMax(FloatZero, FloatSub(Float(y), Float(margin))))

\* x <= y - margin in floats
FloatBelow(x, y, margin) == FloatLe(Float(x), FloatSub(Float(y), Float(margin)))

\* the two comparisons of 370-371 on statistics of at most 200 trades.  Such
\* fractions, when they differ, differ by more than 1 / (5 * 200 * 200) and
\* the floats are within 2^-50 of them, so the floats compare as the
\* fractions do; where the fractions tie, the digits of the floats decide
Tie(x, y, margin) ==
    x.num * RatSub(y, margin).den = RatSub(y, margin).num * x.den
WithinMargin(x, y, margin) ==
    IF Tie(x, y, margin) THEN FloatWithin(x, y, margin)
    ELSE IF RatLe(y, margin) THEN x.num <= 0
    ELSE RatLe(x, RatSub(y, margin))
BelowMargin(x, y, margin) ==
    IF Tie(x, y, margin) THEN FloatBelow(x, y, margin)
    ELSE RatLe(x, RatSub(y, margin))

\* the test of one symbol against the baseline (357-374)
IsBadSymbol(c, win_all, avgR_all) ==
    LET st == compute_win_and_avgR(c)
    IN /\ CountLen(c) >= 8
       /\ st.win_rate # NoRat
       /\ WithinMargin(st.win_rate, win_all, Rat(20, 100))
       /\ BelowMargin(st.avg_R, avgR_all, Rat(15, 100))
       /\ st.avg_R.num < 0

bad_symbols(h) ==
    LET base == BaselineStats(h)
    IN {sym \in LedgerSymbols : IsBadSymbol(AllTrades(h)[sym], base.win_all, base.avgR_all)}

\* a failed read is answered with the empty set
fetch_blocked_symbols(rows, now_utc, fail) ==
    IF fail THEN {}
    ELSE {r.symbol : r \in {q \in rows : q.block_until = None \/ q.block_until > now_utc}}

\* one more row, blocked for two days; a failed insert is only printed
mark_symbol_blocked(rows, symbol, now_utc, fail) ==
    IF fail THEN rows
    ELSE rows \cup {[symbol |-> symbol, block_until |-> now_utc + 2 * Day,
                       note |-> "auto"]}

\* "for sym in bad_symbols: _mark_symbol_blocked(...)": each insert has its
\* own connection and its own try; failing: the symbols whose insert fails
MarkAll(rows, bad, now_utc, failing) ==
    rows \cup UNION {mark_symbol_blocked(rows, sym, now_utc, sym \in failing) :
                       sym \in bad}

\* the return of the full cycle: BrainSettings is called with the keyword
\* p2_PCT, which the dataclass does not have, and raises a TypeError
ReturnSettings(mode, blocked) == Raise

\* get_brain_settings with the ledger's tables as inputs.  Returns the
\* settings (or Raise), the rows of symbol_overrides after the cycle, the
\* mode computed, the number of trades read and what became of the read of
\* the blocked symbols.
brain_cycle(dsn, h, rows, now_utc, trades_fail, blocked_fail, mark_fail) ==
    LET n == CountLen(Pool(AllTrades(h)))
        read == IF blocked_fail THEN "failed" ELSE "ok"
    IN IF ~dsn
       THEN [bs |-> BrainSettings("NORMAL", {}), rows |-> rows, mode |-> "NORMAL",
             n |-> None, blocked_read |-> "none"]
       ELSE IF trades_fail
       THEN [bs |-> Raise, rows |-> rows, mode |-> "none", n |-> None,
             blocked_read |-> "none"]
       ELSE IF n < MIN_TRADES
       THEN [bs |-> BrainSettings("NORMAL", fetch_blocked_symbols(rows, now_utc, blocked_fail)),
             rows |-> rows, mode |-> "NORMAL", n |-> n, blocked_read |-> read]
       ELSE LET mode == SelectMode(RecentStats(h).pnl50_pct, RecentStats(h).avgR50)
                marked == MarkAll(rows, bad_symbols(h), now_utc, mark_fail)
            IN [bs |-> ReturnSettings(mode, fetch_blocked_symbols(marked, now_utc, blocked_fail)),
                rows |-> marked, mode |-> mode, n |-> n, blocked_read |-> read]

\* ---------------------------------------------------------------------
\* The loop seen from the Brain: one Brain update per iteration, days pass
\* ---------------------------------------------------------------------
CountsOf(w, l, f, u) == [win |-> w, loss |-> l, flat |-> f, unrated |-> u]
OneSymbol(sym, c) == [NoCounts EXCEPT ![sym] = c]
BothSymbols(b, a) == [NoCounts EXCEPT !["BTC/USDT"] = b, !["AAPL"] = a]
\* closed trades per symbol the ledger may hold
BtcCounts == {CountsOf(w, l, f, 0) : w \in {0, 2, 7}, l \in {0, 3, 6, 8},
                                     f \in {0, 2, 3, 9}}
             \cup {CountsOf(w, l, 0, 1) : w \in {0, 2, 7}, l \in {0, 3, 6, 8}}
AaplCounts == {CountsOf(0, 0, 0, 0), CountsOf(1, 1, 0, 0), CountsOf(7, 0, 0, 0)}
\* equity_at_exit of the newest trade
EquityEnds == {0, 88, 90, 100, 110}
\* <<equity_at_entry, equity_at_exit>> of an oldest trade whose equity at
\* entry is not recorded: the exit's is, or neither
EquityStarts == {<<0, 100>>, <<0, 0>>}
\* fewer than 50 closed trades: all of them are the recent window
SmallHistories ==
    {[recent |-> BothSymbols(b, a),
      older |-> NoCounts, first_entry |-> 100, first_exit |-> 100, eq_end |-> e] :
        b \in BtcCounts, a \in AaplCounts, e \in EquityEnds}
\* 10 trades of BTC/USDT whose oldest has no equity at entry
UnrecordedHistories ==
    {[recent |-> OneSymbol("BTC/USDT", b), older |-> NoCounts,
      first_entry |-> f[1], first_exit |-> f[2], eq_end |-> e] :
        b \in {CountsOf(2, 6, 2, 0), CountsOf(7, 3, 0, 0)}, e \in EquityEnds,
        f \in EquityStarts}
\* 50 recent trades and, possibly, older ones
BigHistories ==
    {[recent |-> BothSymbols(CountsOf(0, 40, 0, 0), CountsOf(10, 0, 0, 0)),
      older |-> o, first_entry |-> 100, first_exit |-> 100, eq_end |-> 100] :
        o \in {NoCounts, OneSymbol("AAPL", CountsOf(150, 0, 0, 0))}}
\* BTC/USDT with 4 wins and 6 losses beside 5 wins of AAPL: its win rate
\* 0.4 is the baseline's 0.6 less 0.20 as fractions, not as floats
EdgeHistories ==
    {[recent |-> BothSymbols(CountsOf(4, 6, 0, 0), CountsOf(5, 0, 0, 0)),
      older |-> NoCounts, first_entry |-> 100, first_exit |-> 100, eq_end |-> 100]}
\* two symbols of 8 losses each beside 20 wins of AAPL: both are far below
\* the baseline
TwoBadHistories ==
    {[recent |-> [s \in LedgerSymbols |-> IF s = "AAPL" THEN CountsOf(20, 0, 0, 0)
                                          ELSE CountsOf(0, 8, 0, 0)],
      older |-> NoCounts, first_entry |-> 100, first_exit |-> 100, eq_end |-> 100]}
Histories ==
    SmallHistories \cup BigHistories \cup EdgeHistories \cup UnrecordedHistories
    \cup TwoBadHistories
\* rows of symbol_overrides entered by hand: none, one without an expiry,
\* one that expires as the second day ends
OverrideChoices ==
    {{}, {[symbol |-> "BTC/USDT", block_until |-> None, note |-> "manual"]},
     {[symbol |-> "AAPL", block_until |-> 2 * Day, note |-> "manual"]}}

\* a run with a ledger and the first configuration
BrainInit ==
    /\ LoopInit
    /\ db
    /\ ledger_faulty = FALSE
    /\ NoGuardRun
    /\ call_seconds = CallSeconds(MaxTicks - 1)
    /\ tm.atr_k_sl = CfgBase.atr_k_sl
    /\ now = Day
    /\ symbol_overrides \in OverrideChoices
    /\ live_trades \in Histories
    /\ brain_log = NoCycle

\* the settings the loop holds
LoopSettings ==
    [rm |-> rm, tm |-> tm, blocked_symbols |-> blocked_symbols,
     max_notional_pct_hard |-> max_notional_pct_hard,
     last_brain_update_ts |-> last_brain_update_ts]

\* 818-835: every field is taken from the Brain's settings
FromBrain(bs, now_ts) ==
    [rm |-> [risk_per_trade |-> bs.risk_per_trade,
             max_position_pct |-> bs.max_portfolio_exposure],
     tm |-> [atr_k_sl |-> bs.atr_k_sl, r1_R |-> bs.r1_R, r2_R |-> bs.r2_R,
             p1_pct |-> bs.p1_pct, p2_pct |-> bs.p2_pct,
             be_after_R |-> bs.be_after_R, trail_atr_k |-> bs.trail_atr_k,
             max_bars_in_trade |-> bs.max_bars_in_trade],
     blocked_symbols |-> bs.blocked_symbols,
     max_notional_pct_hard |-> bs.max_notional_pct_hard,
     last_brain_update_ts |-> now_ts]

\* faulty variant: a failed cycle falls back to the NORMAL preset
ResetOnRaise(prev, bs, now_ts) ==
    IF bs = Raise THEN FromBrain(BrainSettings("NORMAL", {}), prev.last_brain_update_ts)
    ELSE FromBrain(bs, now_ts)

\* 814-844: get_brain_settings is called before anything is assigned, and
\* the except clause only prints
ApplyBrain(prev, bs, now_ts) ==
    IF bs = Raise THEN prev ELSE FromBrain(bs, now_ts)

BrainCycle ==
    /\ pc = "brain"
    /\ pc' = "fetch"
    /\ IF ~db \/ ~RefreshDue
       THEN /\ brain_log' = [NoCycle EXCEPT !.outcome = "skipped"]
            /\ UNCHANGED <<rm, tm, blocked_symbols, max_notional_pct_hard,
                           last_brain_update_ts, symbol_overrides>>
       ELSE \E trades_fail \in BOOLEAN, blocked_fail \in BOOLEAN,
               mark_fail \in SUBSET bad_symbols(live_trades) :
              \E out \in {brain_cycle(TRUE, live_trades, symbol_overrides, now,
                                       trades_fail, blocked_fail, mark_fail)} :
              \E st \in {ApplyBrain(LoopSettings, out.bs, now)} :
                 /\ rm' = st.rm
                 /\ tm' = st.tm
                 /\ blocked_symbols' = st.blocked_symbols
                 /\ max_notional_pct_hard' = st.max_notional_pct_hard
                 /\ last_brain_update_ts' = st.last_brain_update_ts
                 /\ symbol_overrides' = out.rows
                 /\ brain_log' = [outcome |-> IF out.bs = Raise THEN "failed" ELSE "applied",
                                  n |-> out.n, mode |-> out.mode,
                                  blocked_read |-> out.blocked_read]
    /\ UNCHANGED <<cur, ticks, db, ledger_faulty, guard_vars, call_seconds, equity, last_bar_ts, snapshots, open_positions,
                   open_order, to_close, remaining_notional, orders, ledger, now,
                   live_trades>>

\* what time.time() may read at the next Brain update: the sleep after the
\* start, the 300 s after it, a second more, and the end of each day
ClockReadings ==
    {Day + s : s \in {NoProgressSleep, BRAIN_REFRESH_S, BRAIN_REFRESH_S + 1}}
    \cup {d * Day : d \in 1..MaxDays}

\* the rest of an iteration without a new bar: the calls take their time and
\* the loop sleeps 15 s, then the clock is read again
Elapse ==
    /\ pc = "fetch"
    /\ pc' = "brain"
    /\ \E t \in ClockReadings :
         /\ t >= now + NoProgressSleep
         /\ now' = t
    /\ UNCHANGED <<cur, ticks, db, ledger_faulty, guard_vars, call_seconds, equity, rm, tm, blocked_symbols,
                   max_notional_pct_hard, last_brain_update_ts, last_bar_ts,
                   snapshots, open_positions, open_order, to_close,
                   remaining_notional, orders, ledger, symbol_overrides, live_trades,
                   brain_log>>

BrainNext ==
    \/ BrainCycle
    \/ Elapse

BrainSpec == BrainInit /\ [][BrainNext]_vars

\* ---------------------------------------------------------------------
\* Runs of three iterations, without a ledger: a position entered in the
\* first is managed in the second and in the third
\* ---------------------------------------------------------------------
LongInit ==
    /\ LoopInitWith({CfgBase})
    /\ ~db
    /\ ledger_faulty = FALSE
    /\ NoGuardRun
    /\ call_seconds = CallSeconds(MaxTicks)
    /\ now = Day
    /\ symbol_overrides = {}
    /\ live_trades = NoTrades
    /\ brain_log = NoCycle

LongSpec == LongInit /\ [][Next]_vars

\* ---------------------------------------------------------------------
\* The duration of the run (808-811, 891-894, 1522-1525): runs whose
\* iterations are one sleep of 15 s shorter than the others', so that a
\* reading of the clock may find the week just over, and every blocking
\* call returns
\* ---------------------------------------------------------------------
WeekInit ==
    /\ LoopInitWith({CfgBase})
    /\ ledger_faulty = FALSE
    /\ NoGuardRun
    /\ call_seconds = CallSeconds(MaxTicks - 1) - NoProgressSleep
    /\ now = Day
    /\ symbol_overrides = {}
    /\ live_trades = NoTrades
    /\ brain_log = NoCycle

\* every blocking call returns: the loop takes its next step
WeekSpec == WeekInit /\ [][Next]_vars /\ WF_vars(Next)

\* ---------------------------------------------------------------------
\* Properties
\* ---------------------------------------------------------------------
\* the position of key k is the same one before and after the step
StaysOpen(k) == open_positions[k] # NoPos /\ open_positions'[k] # NoPos

\* the step appended an event to the iteration's log
Logged == Len(orders') = Len(orders) + 1
LastEvent == orders'[Len(orders')]
IsExit(e) == e.kind \in {"TP1", "TP2", "SL", "TIME"}
Entries == {i \in 1..Len(orders) : orders[i].kind = "ENTER"}

\* C1: a position's remaining quantity never increases from one step of
\* its life to the next, whatever the venue reports as live quantity.
C1_QtyNeverIncreases ==
    [][\A k \in Keys :
         StaysOpen(k) => open_positions'[k].qty <= open_positions[k].qty]_vars

\* C2: at the end of the position-management phase (and until the end of
\* the tick) no position in the open set has remaining quantity 0.
C2_NoZeroQtyOpen ==
    pc \in {"enter", "end"} => \A k \in OpenKeys : open_positions[k].qty > 0

\* C3: after the tick in which TP2 filled the position is no longer open:
\* between two ticks no open position has tp2_done.
C3_TP2FillCloses ==
    pc \in {"brain", "done"} => \A k \in OpenKeys : ~open_positions[k].tp2_done

\* C4: the stop of a long position never decreases and the stop of a short
\* position never increases, from any step to the next.
C4_StopMonotone ==
    [][\A k \in Keys :
         StaysOpen(k) =>
           /\ open_positions[k].side = "long" => open_positions'[k].sl >= open_positions[k].sl
           /\ open_positions[k].side = "short" => open_positions'[k].sl <= open_positions[k].sl]_vars

\* a long position entered under the configuration (tp2 at 2 R) whose stop
\* has been raised above its initial level, the Brain's trailing multiplier
\* being in force
C4_Witness ==
    \E k \in OpenKeys :
      /\ open_positions[k].side = "long"
      /\ open_positions[k].tp2 = open_positions[k].entry + 2 * open_positions[k].R
      /\ open_positions[k].sl > open_positions[k].entry - open_positions[k].R
      /\ tm.trail_atr_k = MODE_CONFIGS.NORMAL.trail_atr_k

\* C5: an exit order that is rejected (raises) or returns no identifier
\* leaves the position's quantity, its tp1_done/tp2_done flags, its realized
\* P&L and the equity unchanged, and the position is not marked for removal.
C5_FailedExitLeavesState ==
    [][(Logged /\ IsExit(LastEvent) /\ LastEvent.resp \in {"noid", "nullid", "raise"}) =>
         LET k == LastEvent.key
         IN /\ open_positions'[k].qty = open_positions[k].qty
            /\ open_positions'[k].tp1_done = open_positions[k].tp1_done
            /\ open_positions'[k].tp2_done = open_positions[k].tp2_done
            /\ open_positions'[k].realized_pnl = open_positions[k].realized_pnl
            /\ equity' = equity
            /\ to_close' = to_close]_vars

\* the notional of one step of the coarsest amount step at the highest
\* price of the tick: the slack one entry's rounding may cause
StepSlack ==
    LET S == {EntryStepSize(k) * snapshots[k].close :
                k \in {j \in Keys : snapshots[j] # NoRow}}
    IN IF S = {} THEN 0 ELSE CHOOSE x \in S : \A y \in S : y <= x

\* C6: at the end of every tick the notional of the open positions at the
\* tick's prices is at most equity x max exposure plus one step of slack.
C6_ExposureInvariant ==
    pc = "end" =>
      100 * PortfolioNotional(open_positions)
        <= equity * rm.max_position_pct + 100 * StepSlack

\* C7: the notional of every entry order is within the remaining budget
\* the entry was sized against.
C7_EntryWithinBudget ==
    \A i \in Entries :
      100 * orders[i].qty * orders[i].price <= orders[i].budget

\* every position created by the step has R > 0 and quantity > 0
CreatedSound ==
    \A k \in Keys :
      (open_positions[k] = NoPos /\ open_positions'[k] # NoPos) =>
        (open_positions'[k].R > 0 /\ open_positions'[k].qty > 0)

\* an entry order sent by the step is for a row with a positive ATR, a
\* positive quantity and a positive risk distance
EnterOrderSound ==
    (Logged /\ LastEvent.kind = "ENTER") =>
      LET row == snapshots[LastEvent.key]
      IN /\ row # NoRow
         /\ row.atr # None
         /\ row.atr > 0
         /\ LastEvent.qty > 0
         /\ EntryR(LastEvent.side, row.close,
                   EntrySL(LastEvent.side, row.close, row.atr)) > 0

\* C8: no entry order is sent and no position is created with a risk
\* distance R <= 0, a quantity <= 0 or an unusable volatility; every open
\* position has R > 0.
C8_NoDegenerateEntry ==
    /\ [](\A k \in OpenKeys : open_positions[k].R > 0)
    /\ [][CreatedSound /\ EnterOrderSound]_vars

\* the entry evaluation of this tick met the first key with an unusable
\* volatility (NaN or 0) and budget left, and passed on to the second key,
\* which was entered
C8_Witness ==
    /\ pc = "end"
    /\ ~EntryBlocked(K1[2])
    /\ remaining_notional.whole > 0
    /\ ~IsOpen(K1)
    /\ snapshots[K1] # NoRow
    /\ ~RowUsable(snapshots[K1])
    /\ IsOpen(K2)
    /\ open_positions[K2].bars = 0

\* the event is an exit evaluation at which the venue reported a live
\* quantity below the venue's minimum amount
BelowMinimum(e) ==
    /\ IsExit(e)
    /\ e.live # None
    /\ e.live < get_min_amount_from_market(e.key)

\* C9: when at an exit trigger the venue reports a live quantity below the
\* minimum amount, no order is sent, the position's quantity becomes 0, the
\* position is marked for removal and equity is unchanged.
C9_DustIsFullClose ==
    [][(Logged /\ BelowMinimum(LastEvent)) =>
         /\ LastEvent.resp = "none"
         /\ open_positions'[LastEvent.key].qty = 0
         /\ LastEvent.key \in to_close'
         /\ equity' = equity]_vars

\* C10: no entry order of a tick is for a symbol of the blocked set, and a
\* position open on a blocked symbol goes through the management blocks as
\* any other.
C10_BlockedNotEntered ==
    /\ [](\A i \in Entries : orders[i].key[2] \notin blocked_symbols)
    /\ [][(pc = "manage" /\ cur <= Len(open_order) /\ CurRow # NoRow
            /\ CurKey[2] \in blocked_symbols) =>
             /\ pc' = "tp1"
             /\ open_positions'[CurKey] = StopsAfter(CurPos, CurRow)]_vars

\* the entry evaluation passed over the first key, blocked, although it was
\* not open, had a usable row and budget was left
C10_Witness ==
    /\ pc = "enter"
    /\ cur = 2
    /\ K1[2] \in blocked_symbols
    /\ ~IsOpen(K1)
    /\ RowUsable(snapshots[K1])
    /\ remaining_notional.whole > 0


\* ---------------------------------------------------------------------
\* Properties of the Brain (under BrainSpec: the ledger's closed trades
\* stay as they are, the Brain runs in every iteration that is due)
\* ---------------------------------------------------------------------
AutoRows(sym) == {r \in symbol_overrides : r.symbol = sym /\ r.note = "auto"}
ManualRows(sym) == {r \in symbol_overrides : r.symbol = sym /\ r.note = "manual"}
\* T + D of the Brain's first block of sym
FirstExpiry(sym) == MinOf({r.block_until : r \in AutoRows(sym)})
\* the blocked set at the evaluation time now
CurrentlyBlocked == fetch_blocked_symbols(symbol_overrides, now, FALSE)
\* the step is a Brain update that ran get_brain_settings
CycleRan == pc = "brain" /\ brain_log'.outcome \in {"applied", "failed"}

\* C11: a symbol the Brain blocked at time T (and nobody blocked by hand) is
\* in the blocked set at every evaluation time before T + 2 days and is out
\* of it at every evaluation time from T + 2 days on, while the Brain goes
\* on with its cycles and no trade is added.
C11_BlockExpires ==
    \A sym \in LedgerSymbols :
      (AutoRows(sym) # {} /\ ManualRows(sym) = {}) =>
        IF now < FirstExpiry(sym) THEN sym \in CurrentlyBlocked
        ELSE sym \notin CurrentlyBlocked

\* C12: a Brain update whose cycle raised, wherever in the cycle, leaves the
\* loop's risk parameters, trade parameters, hard cap and blocked set as
\* they were.
C12_FailedCycleKeepsSettings ==
    [][(CycleRan /\ brain_log'.outcome = "failed") =>
         /\ rm' = rm
         /\ tm' = tm
         /\ max_notional_pct_hard' = max_notional_pct_hard
         /\ blocked_symbols' = blocked_symbols]_vars

\* a cycle over ten or more trades failed at its very end, after it had
\* chosen a mode and written a block for BTC/USDT; the loop still holds the
\* configuration's parameters
C12_Witness ==
    /\ brain_log.outcome = "failed"
    /\ brain_log.mode = "DEFENSIVE"
    /\ AutoRows("BTC/USDT") # {}
    /\ rm.risk_per_trade = CfgBase.risk_per_trade
    /\ pc = "fetch"

\* C13: a Brain update that found fewer than 10 closed trades leaves the
\* loop's risk fraction, exposure fraction and trailing multiplier as they
\* were.
C13_FewSamplesKeepParameters ==
    [][(CycleRan /\ brain_log'.outcome = "applied" /\ brain_log'.n < MIN_TRADES) =>
         /\ rm' = rm
         /\ tm'.trail_atr_k = tm.trail_atr_k]_vars

\* C14: a Brain update whose read of the blocked symbols failed drops no
\* symbol from the loop's blocked set.
C14_FailedReadKeepsBlocked ==
    [][(CycleRan /\ brain_log'.blocked_read = "failed") =>
         blocked_symbols \subseteq blocked_symbols']_vars

\* the statistics of the short window as the claim words them; a change of
\* equity that cannot be computed counts as no change
ShortPool == Pool(live_trades.recent)
ShortRated == ShortPool.win + ShortPool.loss + ShortPool.flat
\* the first equity snapshot of the window: the oldest trade's equity at
\* entry or, when that is not recorded, its equity at exit
FirstSnapshot ==
    IF live_trades.first_entry # 0 THEN live_trades.first_entry
    ELSE live_trades.first_exit
EquityKnown == FirstSnapshot > 0 /\ live_trades.eq_end > 0
EquityChangeAtMost(pct) ==
    IF EquityKnown
    THEN 100 * (live_trades.eq_end - FirstSnapshot) <= pct * FirstSnapshot
    ELSE 0 <= pct
EquityChangeAtLeast(pct) ==
    IF EquityKnown
    THEN 100 * (live_trades.eq_end - FirstSnapshot) >= pct * FirstSnapshot
    ELSE 0 >= pct
AvgRAtMost(hundredths) ==
    100 * (ShortPool.win - ShortPool.loss) <= hundredths * ShortRated
AvgRAtLeast(hundredths) ==
    100 * (ShortPool.win - ShortPool.loss) >= hundredths * ShortRated
DefensiveCase == EquityChangeAtMost(0 - 10) \/ AvgRAtMost(0 - 25)
AggressiveCase == ~DefensiveCase /\ EquityChangeAtLeast(10) /\ AvgRAtLeast(70)

\* C15: the mode a cycle over at least 10 trades chooses is DEFENSIVE when
\* the equity change is at most -10% or the average R at most -0.25,
\* otherwise AGGRESSIVE when the equity change is at least +10% and the
\* average R at least 0.7, otherwise NORMAL.
C15_ModeRule ==
    (brain_log.mode # "none" /\ brain_log.n >= MIN_TRADES /\ ShortRated > 0) =>
        brain_log.mode = IF DefensiveCase THEN "DEFENSIVE"
                         ELSE IF AggressiveCase THEN "AGGRESSIVE"
                         ELSE "NORMAL"

\* 10 closed trades, 2 wins (20%), average R -0.4, equity 100 -> 88 (-12%):
\* the cycle chose DEFENSIVE
C15_Witness ==
    /\ CountLen(ShortPool) = 10
    /\ ShortPool.win = 2 /\ ShortPool.loss = 6 /\ ShortPool.flat = 2
    /\ live_trades.first_entry = 100 /\ live_trades.eq_end = 88
    /\ brain_log.mode = "DEFENSIVE"
    /\ brain_log.n = 10

\* C16: after a cycle over at least 10 trades chose mode M, the loop's risk
\* fraction, exposure fraction and trailing multiplier are M's preset and
\* the other parameters have their fixed values.
C16_PresetApplied ==
    [][(CycleRan /\ brain_log'.n >= MIN_TRADES /\ brain_log'.mode # "none") =>
         LET M == MODE_CONFIGS[brain_log'.mode]
         IN /\ rm' = [risk_per_trade |-> M.risk_per_trade,
                      max_position_pct |-> M.max_portfolio_exposure]
            /\ tm' = [atr_k_sl |-> ATR_K_SL, r1_R |-> R1_R, r2_R |-> R2_R,
                      p1_pct |-> P1_PCT, p2_pct |-> P2_PCT,
                      be_after_R |-> BE_AFTER_R, trail_atr_k |-> M.trail_atr_k,
                      max_bars_in_trade |-> MAX_BARS_IN_TRADE]
            /\ max_notional_pct_hard' = MAX_NOTIONAL_PCT_HARD_DEFAULT]_vars

\* the claim's test of a symbol against the baseline: margins of 0.20 and
\* 0.15 below the baseline, whatever the baseline is
Underperforms(sym) ==
    LET c == AllTrades(live_trades)[sym]
        st == compute_win_and_avgR(c)
        base == BaselineStats(live_trades)
    IN /\ CountLen(c) >= 8
       /\ st.win_rate # NoRat
       /\ RatLe(st.win_rate, RatSub(base.win_all, Rat(20, 100)))
       /\ RatLe(st.avg_R, RatSub(base.avgR_all, Rat(15, 100)))
       /\ st.avg_R.num < 0

\* C17: a symbol the Brain flagged (wrote a block for) has at least 8 trades,
\* a win rate at least 0.20 below the baseline's, an average R at least 0.15
\* below the baseline's and a negative average R.
C17_FlaggedUnderperforms ==
    \A sym \in LedgerSymbols : AutoRows(sym) # {} => Underperforms(sym)


\* ---------------------------------------------------------------------
\* Properties of the exits
\* ---------------------------------------------------------------------
\* the step is an exit evaluation of `kind` whose order the venue answered
\* with an identifier
Filled(kind) == Logged /\ LastEvent.kind = kind /\ LastEvent.resp = "id"

\* C18: at a TP1 whose order succeeded the closed quantity is the lesser of
\* p1_pct x the position's quantity and the live quantity the venue
\* reported, equity and realized P&L grow by the directional price delta x
\* the closed quantity, tp1_done is set and the quantity that remains is the
\* position's quantity minus the closed quantity.
C18_TP1Transition ==
    [][Filled("TP1") =>
         LET e == LastEvent
             p == open_positions[e.key]
             q == open_positions'[e.key]
             requested == Pct(p.qty, tm.p1_pct)
             closed == IF e.live = None THEN requested ELSE Min(requested, e.live)
             gain == IF p.side = "long" THEN (e.price - p.entry) * closed
                     ELSE (p.entry - e.price) * closed
         IN /\ e.qty = closed
            /\ equity' = equity + gain
            /\ q.realized_pnl = p.realized_pnl + gain
            /\ q.tp1_done
            /\ q.qty = p.qty - closed]_vars


\* the current position is untouched by TP1 and by the stop in this
\* iteration and before, and this bar is the one that fills its time limit
TimeLimitReached ==
    /\ pc = "time"
    /\ ~CurPos.tp1_done
    /\ ~Reached(CurPos.side, CurRow.close, CurPos.tp1)
    /\ ~Stopped(CurPos.side, CurRow.close, CurPos.sl)
    /\ CurPos.bars + 1 >= tm.max_bars_in_trade

\* C19: when the bar count of a position that reached neither TP1 nor its
\* stop reaches max_bars_in_trade, the TIME exit is evaluated in that
\* iteration, and if its order succeeds the whole quantity is closed at the
\* bar's close, the P&L at that price (of either sign) is booked and the
\* position is removed.
C19_TimeExit ==
    [][TimeLimitReached =>
         /\ Logged
         /\ LastEvent.kind = "TIME"
         /\ LastEvent.key = CurKey
         /\ LastEvent.resp = "id" =>
              /\ LastEvent.qty = CurPos.qty
              /\ LastEvent.price = CurRow.close
              /\ equity' = equity + Pnl(CurPos.side, CurPos.entry, CurRow.close, CurPos.qty)
              /\ CurKey \in to_close']_vars

\* ---------------------------------------------------------------------
\* Reports to the ledger
\* ---------------------------------------------------------------------
\* the step is an exit block that found only dust and marked the position
\* closed without an order
DustClose ==
    /\ Logged
    /\ LastEvent.kind # "ENTER"
    /\ LastEvent.resp = "none"
    /\ CurPos.qty > 0
    /\ open_positions'[CurKey].qty = 0

\* the step is an exit block of one of `kinds` that completed a close: its
\* order was accepted by the venue, or it closed the position as dust
CompletedClose(kinds) ==
    /\ Logged
    /\ LastEvent.kind \in kinds
    /\ \/ LastEvent.resp # "none" /\ place_order(LastEvent.key, LastEvent.resp)
       \/ DustClose

\* the step adds one report for the current position's trade id, with the
\* position's realized P&L, the price of the exit, the reason and the
\* equity after the close
CloseReported ==
    /\ Len(ledger') = Len(ledger) + 1
    /\ LET r == ledger'[Len(ledger')]
       IN /\ r.trade_id = CurPos.trade_id
          /\ r.realized_pnl = open_positions'[CurKey].realized_pnl
          /\ r.exit_price = IF LastEvent.kind = "SL" THEN CurPos.sl
                            ELSE LastEvent.price
          /\ r.exit_type = IF DustClose THEN "DUST" ELSE LastEvent.kind
          /\ r.equity_at_exit = equity'

\* C20: every completed close of a position that has a ledger trade id,
\* partial (TP1, TP2) as well as full (SL, TIME, dust), produces a ledger
\* close report for that trade id carrying the realized P&L, the exit
\* price, the exit reason and the equity after the close.
C20_CloseReported ==
    [][CompletedClose({"TP1", "TP2", "SL", "TIME"}) /\ CurPos.trade_id # None
         => CloseReported]_vars

\* ---------------------------------------------------------------------
\* Failures of the ledger
\* ---------------------------------------------------------------------
\* the step called db.close_live_trade and the call raised
CloseReportFailed ==
    /\ Len(ledger') = Len(ledger) + 1
    /\ ledger'[Len(ledger')].raised

\* the step placed an entry order that the venue accepted
EntryAccepted ==
    /\ Logged
    /\ LastEvent.kind = "ENTER"
    /\ place_order(LastEvent.key, LastEvent.resp)

\* C21: when the ledger close report fails the close still completes in the
\* tick (equity and realized P&L move by the P&L of the closed quantity, the
\* key is queued for removal and is out of the open set when the entries
\* start); an accepted entry creates the position whether or not the ledger
\* gave a trade id, and without a ledger answer the position has none.
C21_LedgerFailureDoesNotBlock ==
    /\ [](pc = "enter" /\ cur = 1 => \A k \in to_close : ~IsOpen(k))
    /\ [][/\ CloseReportFailed =>
               LET r == ledger'[Len(ledger')]
                   p == CurPos
                   q == open_positions'[CurKey]
                   pnl == IF r.exit_type = "DUST" THEN 0
                          ELSE Pnl(p.side, p.entry, r.exit_price, LastEvent.qty)
               IN /\ CurKey \in to_close'
                  /\ equity' = equity + pnl
                  /\ q.realized_pnl = p.realized_pnl + pnl
                  /\ r.exit_type = "DUST" => q.qty = 0
          /\ EntryAccepted =>
               LET q == open_positions'[LastEvent.key]
               IN /\ q # NoPos
                  /\ q.side = LastEvent.side
                  /\ q.qty = LastEvent.qty
                  /\ q.entry = LastEvent.price
                  /\ q.trade_id \in {None, TradeId}]_vars

\* a time exit whose report raised moved equity and its position is gone,
\* and a position entered in the same tick is open without a trade id
C21_Witness ==
    /\ db
    /\ pc = "end"
    /\ \E i \in 1..Len(ledger) :
         /\ ledger[i].raised
         /\ ledger[i].exit_type = "TIME"
         /\ ledger[i].equity_at_exit = equity
    /\ equity # Equity0
    /\ ~IsOpen(K2)
    /\ IsOpen(K1)
    /\ open_positions[K1].trade_id = None

\* ---------------------------------------------------------------------
\* A symbol whose fetch failed
\* ---------------------------------------------------------------------
\* the fetch of this step delivers a row for a key never seen before
FirstBarFetched ==
    /\ pc = "fetch"
    /\ \E k \in Keys : last_bar_ts[k] = 0 /\ last_bar_ts'[k] # 0

\* C22: a failed snapshot fetch for one symbol does not abort the tick: a
\* fetch that brought a new bar for another symbol goes on to the
\* management phase, every position that has a snapshot is managed and
\* every order of the tick is for a key with a snapshot, while the open
\* position of a symbol without a snapshot is left unchanged by every step.
C22_FailedFetchSkipsSymbol ==
    /\ [](\A i \in 1..Len(orders) : snapshots[orders[i].key] # NoRow)
    /\ [][/\ \A k \in Keys :
               snapshots[k] = NoRow => open_positions'[k] = open_positions[k]
          /\ FirstBarFetched => pc' = "manage"
          /\ (pc = "manage" /\ cur <= Len(open_order) /\ CurRow # NoRow)
               => pc' = "tp1"]_vars

\* at the end of a tick one symbol has no snapshot and its position is
\* open, and an order for another symbol was accepted in the tick
C22_Witness ==
    /\ pc = "end"
    /\ \E k \in Keys :
         /\ snapshots[k] = NoRow
         /\ IsOpen(k)
         /\ \E i \in 1..Len(orders) :
              /\ orders[i].key # k
              /\ place_order(orders[i].key, orders[i].resp)
              /\ orders[i].resp # "none"

\* ---------------------------------------------------------------------
\* Failed orders
\* ---------------------------------------------------------------------
\* the event is an order the venue did not accept
OrderFailed(e) == e.resp # "none" /\ ~place_order(e.key, e.resp)

\* C23: a failed order is abandoned for the tick: after an entry or exit
\* order failed for a key, no further order for that key is placed in the
\* same tick.
C23_FailedOrderAbandoned ==
    \A i, j \in 1..Len(orders) :
      (i < j /\ orders[i].key = orders[j].key /\ OrderFailed(orders[i]))
        => orders[j].resp = "none"

\* ---------------------------------------------------------------------
\* Equity
\* ---------------------------------------------------------------------
ExitKinds == {"TP1", "TP2", "SL", "TIME"}

\* the P&L of the exit the step logged: the closed quantity at the price of
\* the fill (the stop for an SL exit, the bar's close otherwise)
LoggedExitPnl ==
    Pnl(CurPos.side, CurPos.entry,
        IF LastEvent.kind = "SL" THEN CurPos.sl ELSE LastEvent.price,
        LastEvent.qty)

\* C24: equity is mutated only additively by realized P&L: it starts at the
\* initial equity, a step that completes an exit (TP1, TP2, SL, TIME: the
\* venue answered the order with an identifier) adds the P&L of that exit,
\* and every other step (entries, failed orders, dust closes, Brain
\* refreshes) leaves equity unchanged.
C24_EquityAdditive ==
    /\ (pc = "brain" /\ ticks = 0) => equity = Equity0
    /\ [][equity' = equity + (IF Logged /\ LastEvent.kind \in ExitKinds
                                        /\ LastEvent.resp = "id"
                              THEN LoggedExitPnl ELSE 0)]_vars

\* ---------------------------------------------------------------------
\* The budget within one tick
\* ---------------------------------------------------------------------
\* position of a key in the order of evaluation (connector, then symbol)
KeyIndex(k) == CHOOSE i \in 1..Len(KeyOrder) : KeyOrder[i] = k

\* the entry orders of the tick that the venue accepted
AcceptedEntries ==
    {i \in Entries : place_order(orders[i].key, orders[i].resp)}

\* C25: within one tick the entries are evaluated in the fixed order of the
\* keys, and an accepted entry reduces the remaining budget by its notional
\* before the next key is evaluated, so that each accepted entry of a tick
\* was sized against the budget the earlier ones left; a rejected or failed
\* entry leaves the remaining budget unchanged.
C25_BudgetWithinTick ==
    /\ [](\A i, j \in AcceptedEntries :
            i < j => /\ KeyIndex(orders[i].key) < KeyIndex(orders[j].key)
                     /\ orders[j].budget <=
                          orders[i].budget - 100 * orders[i].qty * orders[i].price)
    /\ [][pc = "enter" =>
            /\ cur' = cur + 1
            /\ Logged => /\ LastEvent.key = KeyOrder[cur]
                         /\ LastEvent.budget = remaining_notional.whole
            /\ remaining_notional'.whole =
                 IF EntryAccepted
                 THEN remaining_notional.whole
                        - 100 * LastEvent.qty * LastEvent.price
                 ELSE remaining_notional.whole]_vars

\* ---------------------------------------------------------------------
\* Blocking across Brain cycles
\* ---------------------------------------------------------------------
\* C26: blocking is additive across Brain cycles: a cycle removes no block
\* record, and a symbol that a Brain update takes out of the blocked set
\* has no block left that is still running (only expiry clears it).
C26_BlockingAdditive ==
    [][CycleRan =>
         /\ symbol_overrides \subseteq symbol_overrides'
         /\ \A sym \in blocked_symbols \ blocked_symbols' :
              sym \notin CurrentlyBlocked']_vars

\* ---------------------------------------------------------------------
\* Stable pairs
\* ---------------------------------------------------------------------
\* C27: stable/stable pairs are never traded: a configured symbol whose
\* base and quote are both among USD, USDT, USDC, USDG, written with a
\* slash, with a futures suffix or joined, in either case of letters, never
\* gets past the hard filter at the head of the entry loop.
C27_StablePairsSkipped ==
    (/\ cfg_symbol # NoSymbol
     /\ cfg_symbol.base \in STABLE_TOKENS
     /\ cfg_symbol.quote \in STABLE_TOKENS) => guard # "evaluated"

\* usdtusd:usd was passed over
C27_Witness ==
    /\ cfg_symbol = [base |-> USDT, quote |-> USD, form |-> "joined futures",
                     lower |-> TRUE]
    /\ guard = "continue"

\* ---------------------------------------------------------------------
\* The shared parameters within one tick
\* ---------------------------------------------------------------------
SharedParameters == <<rm, tm, blocked_symbols, max_notional_pct_hard>>

\* all the parameters after the step are those of one Brain result
OneBrainResult ==
    \E mode \in DOMAIN MODE_CONFIGS :
      LET bs == BrainSettings(mode, blocked_symbols')
      IN /\ rm' = [risk_per_trade |-> bs.risk_per_trade,
                   max_position_pct |-> bs.max_portfolio_exposure]
         /\ tm' = [atr_k_sl |-> bs.atr_k_sl, r1_R |-> bs.r1_R, r2_R |-> bs.r2_R,
                   p1_pct |-> bs.p1_pct, p2_pct |-> bs.p2_pct,
                   be_after_R |-> bs.be_after_R, trail_atr_k |-> bs.trail_atr_k,
                   max_bars_in_trade |-> bs.max_bars_in_trade]
         /\ max_notional_pct_hard' = bs.max_notional_pct_hard

\* C28: the risk parameters, the trade parameters, the hard cap and the
\* blocked set are modified only by the Brain update at the start of an
\* iteration, all together from one Brain result; the fetch, management
\* and entry steps of a tick leave them unchanged.
C28_ParametersOnlyAtRefresh ==
    [][IF pc = "brain"
       THEN UNCHANGED SharedParameters \/ OneBrainResult
       ELSE UNCHANGED SharedParameters]_vars

\* a tick that ran with the parameters and the blocked set of a refresh:
\* an order was placed under them
C28_Witness ==
    /\ pc = "end"
    /\ last_brain_update_ts # 0
    /\ rm.risk_per_trade = MODE_CONFIGS["NORMAL"].risk_per_trade
    /\ tm.r2_R = R2_R
    /\ blocked_symbols # {}
    /\ orders # <<>>

\* ---------------------------------------------------------------------
\* Repeated evaluations of the Brain on one window of closed trades
\* ---------------------------------------------------------------------
\* the cycle of the log read the closed trades
WindowRead(log) == log.outcome \in {"applied", "failed"} /\ log.n # None

C30_CooperativeTermination ==
    /\ [](pc = "done" => now - start_time >= SECONDS_IN_WEEK)
    /\ [][/\ (pc = "fetch" /\ pc' # "manage")
               => pc' = IF now' - start_time >= SECONDS_IN_WEEK THEN "done"
                        ELSE "brain"
          /\ pc = "end"
               => pc' = IF now - start_time >= SECONDS_IN_WEEK THEN "done"
                        ELSE "brain"
          /\ pc' = "done" => pc \in {"fetch", "end"}]_vars
    /\ (now - start_time >= SECONDS_IN_WEEK ~> pc = "done")

\* the loop was left at the end of a full tick, with a position open, by
\* the reading that found exactly one week, after an iteration that went on
C30_Witness ==
    /\ pc = "done"
    /\ now - start_time = SECONDS_IN_WEEK
    /\ ticks >= 2
    /\ OpenKeys # {}

\* ---------------------------------------------------------------------
\* The remaining quantity of a position
\* ---------------------------------------------------------------------
\* C31: in every reachable state the remaining quantity of every open
\* position is at least 0, whatever the venue reported as live quantity
\* and whatever was closed.
C31_QtyNonNegative ==
    \A k \in Keys : IsOpen(k) => open_positions[k].qty >= 0

\* a partial close against a live quantity reported by the venue left an
\* open position of quantity 0
C31_Witness ==
    \E k \in Keys :
      /\ IsOpen(k)
      /\ open_positions[k].qty = 0
      /\ \E i \in 1..Len(orders) :
           /\ orders[i].key = k
           /\ orders[i].kind = "TP1"
           /\ orders[i].live # None
           /\ orders[i].qty > 0
           /\ orders[i].resp = "id"

\* ---------------------------------------------------------------------
\* The end of a position's life
\* ---------------------------------------------------------------------
\* after the step, every order of the iteration for key k was answered with
\* an identifier and the venue reported no quantity other than the
\* position's own
ExitsAsAssumed(k) ==
    \A i \in 1..Len(orders') :
      orders'[i].key = k =>
        /\ orders'[i].resp \in {"id", "none"}
        /\ orders'[i].live = None

\* C32: with a snapshot in the tick, every exit order of the position
\* answered with an identifier and the venue's quantity equal to the
\* position's, a position whose bar count reaches max_bars_in_trade in a
\* tick is queued for removal in that tick at the latest, on every price
\* path.
C32_DestroyedByTimeLimit ==
    [][/\ pc = "time"
       /\ CurPos.bars + 1 >= tm.max_bars_in_trade
       /\ ExitsAsAssumed(CurKey)
       => CurKey \in to_close']_vars

\* ---------------------------------------------------------------------
\* The budget of a tick's entries
\* ---------------------------------------------------------------------
\* a last known price for every key: one of the prices it trades at
KnownPrices == {p \in [Keys -> UNION {Prices(k) : k \in Keys}] :
                  \A k \in Keys : p[k] \in Prices(k)}

\* the notional of all positions open after the removal, at the tick's
\* price where the key has a snapshot and at its last known price otherwise
NotionalOfAll(p) ==
    SumOver(Keys,
            [k \in Keys |->
               IF open_positions'[k] = NoPos THEN 0
               ELSE open_positions'[k].qty
                      * (IF snapshots[k] # NoRow THEN snapshots[k].close ELSE p[k])])

\* C33: the budget the entries of a tick start from is
\* max(0, equity x max exposure - sum of quantity x price) over every open
\* position, a position without a snapshot in this tick counted at its
\* last known price.
C33_BudgetCountsEveryPosition ==
    [][pc = "manage" /\ pc' = "enter"
       => \E p \in KnownPrices :
            remaining_notional'.whole
              = Max(0, equity * rm.max_position_pct - 100 * NotionalOfAll(p))]_vars

\* ---------------------------------------------------------------------
\* The order of the steps of one position in a tick
\* ---------------------------------------------------------------------
\* the stop of a position after the trailing step and then the break-even
\* step on the row
TightenedStop(pos, row) ==
    LET trailed == IF AtrTruthy(row.atr)
                   THEN TightenSL(pos.side, pos.sl,
                                  TrailLevel(pos.side, row.close, row.atr,
                                             tm.trail_atr_k))
                   ELSE pos.sl
    IN IF /\ ~pos.moved_to_be
          /\ AtrTruthy(row.atr)
          /\ BeReached(pos.side, row.close, pos.entry, pos.R, tm.be_after_R)
       THEN TightenSL(pos.side, trailed, pos.entry)
       ELSE trailed

\* the step goes on with the same position
SamePosition == pc' # "manage" /\ pc' # "enter"

StepOrder ==
    /\ pc = "manage" /\ pc' # "enter" /\ cur' = cur
         => /\ pc' = "tp1"
            /\ open_positions'[CurKey].sl = TightenedStop(CurPos, CurRow)
    /\ pc = "tp1"
         => /\ SamePosition => pc' = "tp2"
            /\ open_positions'[CurKey].sl = CurPos.sl
    /\ pc = "tp2"
         => /\ SamePosition => pc' = "sl"
            /\ open_positions'[CurKey].sl = CurPos.sl
    /\ pc = "sl"
         => /\ SamePosition => pc' = "time"
            /\ (Logged /\ LastEvent.kind = "SL")
                 <=> Stopped(CurPos.side, CurRow.close, CurPos.sl)
    /\ pc = "time" => pc' = "manage" /\ cur' = cur + 1

\* C34: the steps of a position in a tick run in the order trailing stop,
\* break-even, TP1, TP2, stop-loss, time exit; TP1 and TP2 leave the stop
\* alone, so the stop-loss check compares the price with the stop as the
\* trailing and break-even steps of the same tick left it.
C34_StepOrder == [][StepOrder]_vars

\* a short position at its stop-loss check in the tick that moved its stop
\* to break-even and filled TP1: the stop is at or below the entry price,
\* no longer the initial stop
C34_Witness ==
    /\ pc = "sl"
    /\ CurPos.bars = 0
    /\ CurPos.side = "short"
    /\ CurPos.moved_to_be
    /\ CurPos.sl <= CurPos.entry
    /\ CurPos.tp1_done

\* ---------------------------------------------------------------------
\* The stop-loss exit
\* ---------------------------------------------------------------------
\* the step is the SL block of a position whose stop the price has crossed,
\* and its order was answered with an identifier
StopLossFilled ==
    /\ pc = "sl"
    /\ Stopped(CurPos.side, CurRow.close, CurPos.sl)
    /\ Logged
    /\ LastEvent.kind = "SL"
    /\ LastEvent.resp = "id"

\* C35: a stop-loss exit whose order succeeds closes the whole remaining
\* quantity, books the P&L of that quantity at the stop price, queues the
\* position for removal in the tick and leaves it with quantity 0.
C35_StopLossExit ==
    [][StopLossFilled =>
         /\ LastEvent.qty = CurPos.qty
         /\ equity' = equity + Pnl(CurPos.side, CurPos.entry, CurPos.sl, CurPos.qty)
         /\ CurKey \in to_close'
         /\ open_positions'[CurKey].qty = 0]_vars

\* ---------------------------------------------------------------------
\* One position per key
\* ---------------------------------------------------------------------
\* C36: no entry order is placed for a key that has an open position, and
\* a position leaves the open set only by the removal of the keys closed in
\* the tick: between two entries of a key its position was closed.
C36_OnePositionPerKey ==
    [][/\ (Logged /\ LastEvent.kind = "ENTER") => ~IsOpen(LastEvent.key)
       /\ \A k \in Keys :
            (IsOpen(k) /\ open_positions'[k] = NoPos)
              => (pc = "manage" /\ pc' = "enter" /\ k \in to_close)]_vars

\* a key whose position was closed in the tick and that was entered again
\* in the same tick: the new position has seen no bar yet
C36_Witness ==
    \E k \in Keys :
      /\ pc = "end"
      /\ k \in to_close
      /\ IsOpen(k)
      /\ open_positions[k].bars = 0
      /\ \E i \in 1..Len(orders) :
           orders[i].key = k /\ orders[i].kind = "ENTER" /\ orders[i].resp = "id"

\* ---------------------------------------------------------------------
\* One full close per position
\* ---------------------------------------------------------------------
\* the stop-loss order of the position of key k was answered with an
\* identifier in this iteration
StopLossClosed(k) ==
    \E i \in 1..Len(orders) :
      orders[i].key = k /\ orders[i].kind = "SL" /\ orders[i].resp = "id"

\* C37: once the SL close of a position has succeeded in a tick, the TIME
\* block of that tick sends no order for it, adds nothing to equity and
\* reports no close to the ledger, and the position is gone when the
\* entries of the tick start.
C37_OneFullClose ==
    /\ [](pc = "enter" /\ cur = 1 => \A k \in to_close : ~IsOpen(k))
    /\ [][pc = "time" /\ StopLossClosed(CurKey)
          => /\ equity' = equity
             /\ ledger' = ledger
             /\ Logged => LastEvent.resp = "none"]_vars

\* ---------------------------------------------------------------------
\* The order of the profit targets
\* ---------------------------------------------------------------------
\* C38: in every reachable state, an open position with tp2_done has
\* tp1_done: TP2 is never recorded as filled while TP1 is pending.
C38_TP2ImpliesTP1 ==
    \A k \in Keys :
      IsOpen(k) => (open_positions[k].tp2_done => open_positions[k].tp1_done)

\* ---------------------------------------------------------------------
\* The break-even stop
\* ---------------------------------------------------------------------
\* the stop is at the entry price or beyond it on the profitable side
StopBeyondEntry(pos) ==
    IF pos.side = "long" THEN pos.sl >= pos.entry ELSE pos.sl <= pos.entry

\* C39: moved_to_be, once set for a position, is never cleared, and in
\* every state in which it is set the stop is at or beyond the entry price
\* on the profitable side.
C39_BreakEvenKept ==
    /\ [](\A k \in Keys :
            (IsOpen(k) /\ open_positions[k].moved_to_be)
              => StopBeyondEntry(open_positions[k]))
    /\ [][\A k \in Keys :
            (StaysOpen(k) /\ open_positions[k].moved_to_be)
              => open_positions'[k].moved_to_be]_vars

\* a long position whose stop was moved to break-even in an earlier tick
\* is managed again, on a bar that closed below its entry price: the stop
\* update has run on it and has left the stop at the entry price or above
C39_Witness ==
    /\ pc = "tp1"
    /\ ticks = 2
    /\ CurPos.side = "long"
    /\ CurPos.moved_to_be
    /\ CurPos.bars = 1
    /\ CurPos.qty > 0
    /\ CurRow.close < CurPos.entry
    /\ CurPos.sl >= CurPos.entry

\* ---------------------------------------------------------------------
\* Entries after a close in the same tick
\* ---------------------------------------------------------------------
\* C40: a key whose position was closed in the management phase of a tick
\* receives no entry order in the entry phase of that tick.
C40_NoReentryInTick ==
    [][(Logged /\ LastEvent.kind = "ENTER") => LastEvent.key \notin to_close]_vars

====
